---- MODULE Spec2Model ----
(***************************************************************************)
(* State-machine model of LibSerial's SerialStreamBuf::Implementation      *)
(* (src/src/SerialStreamBuf.cc): the port configuration / lifecycle        *)
(* manager and the unbuffered stream adapter with its one-byte putback.    *)
(*                                                                         *)
(* The program state is the object's fields (mFileDescriptor,              *)
(* mOldPortSettings, mPutbackAvailable, mPutbackChar).  The kernel state   *)
(* the system calls act on is the device's termios structure, the          *)
(* O_NONBLOCK status flag of the open file description, the input queue    *)
(* and the number of bytes in the output queue.  Every member function is  *)
(* one atomic action; the system calls it makes may fail as the operating  *)
(* system allows, which is a nondeterministic input of the action.         *)
(***************************************************************************)
EXTENDS Integers, Sequences, FiniteSets

\* ------------------------------------------------------------------ bounds
\* Most bytes the kernel input queue holds in the model.
MaxQueue == 2
\* Most bytes the kernel output queue holds in the model.
MaxOut == 1
\* Largest byte count a caller passes to xsputn / xsgetn in the model.
MaxN == 2

\* --------------------------------------------------------------- constants
\* traits_type::eof()
eof == -1
\* CTRL_Q, the XON start character
CTRL_Q == 17
\* CTRL_S, the XOFF stop character
CTRL_S == 19
\* _POSIX_VDISABLE
POSIX_VDISABLE == 0
VMIN_DEFAULT == 0
VTIME_DEFAULT == 0
\* The descriptor open() hands out.
FdValue == 3

\* Bytes that arrive on the line.
Bytes == {65, 66}

\* speed_t values: the Bxxx constants the driver knows.
ValidSpeeds == {"B0", "B9600", "B115200"}
BAUD_DEFAULT == "B115200"

\* CharacterSize values are c_cflag bit patterns: the CSIZE group, named by
\* the number of bits it encodes (CS5 is the all-zero pattern), and any
\* c_cflag bits outside the group.
CharSizeOf(n) == [csize |-> n, extra |-> {}]
CHAR_SIZE_5 == CharSizeOf(5)
CHAR_SIZE_6 == CharSizeOf(6)
CHAR_SIZE_7 == CharSizeOf(7)
CHAR_SIZE_8 == CharSizeOf(8)
\* A value that is none of the four enumerators: its bit pattern is CS8 with
\* one more c_cflag bit, which happens to be PARENB.
CHAR_SIZE_INVALID == [csize |-> 8, extra |-> {"PARENB"}]
CHAR_SIZE_DEFAULT == CHAR_SIZE_8

FLOW_CONTROL_DEFAULT == "FLOW_CONTROL_NONE"
PARITY_DEFAULT == "PARITY_NONE"
STOP_BITS_DEFAULT == "STOP_BITS_1"

\* ----------------------------------------------------------------- termios
\* memset(&port_settings, 0, sizeof(port_settings)), and the value
\* initialisation of mOldPortSettings.
ZeroTermios ==
    [c_iflag |-> {}, c_oflag |-> {}, c_cflag |-> {}, c_lflag |-> {},
     csize |-> 5, ispeed |-> "B0", ospeed |-> "B0",
     vmin |-> 0, vtime |-> 0, vstart |-> 0, vstop |-> 0]

\* Settings a device may be found in before the program opens it: a cooked
\* terminal line, and a 7E2 line with hardware handshake whose input and
\* output speeds were split by another tool.
CookedTermios ==
    [c_iflag |-> {"ICRNL", "IXON"}, c_oflag |-> {"OPOST"},
     c_cflag |-> {"CREAD", "HUPCL"}, c_lflag |-> {"ICANON", "ECHO"},
     csize |-> 8, ispeed |-> "B9600", ospeed |-> "B9600",
     vmin |-> 1, vtime |-> 0, vstart |-> 17, vstop |-> 19]

SplitTermios ==
    [c_iflag |-> {"INPCK", "ISTRIP"}, c_oflag |-> {},
     c_cflag |-> {"CREAD", "CLOCAL", "PARENB", "CSTOPB", "CRTSCTS"},
     c_lflag |-> {},
     csize |-> 7, ispeed |-> "B9600", ospeed |-> "B115200",
     vmin |-> 0, vtime |-> 255, vstart |-> 0, vstop |-> 0]

InitSettings == {CookedTermios, SplitTermios}

VARIABLES
    mFileDescriptor,    \* -1, or the descriptor of the open port
    mOldPortSettings,   \* termios saved by Open, restored by Close
    mPutbackAvailable,  \* a putback byte is pending
    mPutbackChar,       \* the putback byte
    termios,            \* kernel: the device's settings
    nonblock,           \* kernel: O_NONBLOCK of the open file description
    inq,                \* kernel: received bytes not yet read
    outq,               \* kernel: number of written bytes not yet sent
    op,                 \* caller: "idle", or the function that just ended
    err,                \* caller: the exception it raised, or "none"
    ret,                \* caller: the value it returned
    calls,              \* caller: the system calls it issued, in order
    buf,                \* caller: what xsgetn stored in the caller's array
    preOpen,            \* history: the device settings when Open was entered
    openOk,             \* history: the port was opened by an Open that returned
    probeFailed         \* history: showmanyc returned -1 since that Open

prog == <<mFileDescriptor, mOldPortSettings, mPutbackAvailable, mPutbackChar>>
kern == <<termios, nonblock, inq, outq>>
obs == <<op, err, ret, calls, buf>>
hist == <<preOpen, openOk, probeFailed>>
vars == <<prog, kern, obs, hist>>

\* --------------------------------------------------------- call machinery
\* The state a member function runs on, with what it has produced so far.
\* k is the program and kernel state, err the exception in flight, calls the
\* system calls issued so far.
Start ==
    [k |-> [fd |-> mFileDescriptor, old |-> mOldPortSettings,
            pbAvail |-> mPutbackAvailable, pbChar |-> mPutbackChar,
            t |-> termios, nb |-> nonblock,
            inq |-> inq, outq |-> outq],
     err |-> "none", ret |-> 0, calls |-> <<>>, buf |-> <<>>]

\* r after issuing system call `name`.
Sys(r, name) == [r EXCEPT !.calls = Append(@, name)]

\* The system call r issues next fails: it is the f-th call of the member
\* function (f = 0: no call fails).
FailsNext(r, f) == Len(r.calls) + 1 = f

Throw(r, e) == [r EXCEPT !.err = e]
Return(r, v) == [r EXCEPT !.ret = v]

Min(a, b) == IF a < b THEN a ELSE b

IsOpen(r) == r.k.fd # -1

\* --------------------------------------------------- flushes, blocking mode
\* Variant: FlushInputBuffer without the IsOpen test.
FlushInputBuffer_Unguarded(r, f) ==
    IF r.err # "none" THEN r
    ELSE LET r1 == Sys(r, "tcflush_in") IN
         IF FailsNext(r, f) \/ ~IsOpen(r) THEN Throw(r1, "runtime_error")
         ELSE [r1 EXCEPT !.k.inq = <<>>]

FlushInputBuffer(r, f) ==
    IF r.err # "none" THEN r
    ELSE IF ~IsOpen(r) THEN Throw(r, "NotOpen")
    ELSE LET r1 == Sys(r, "tcflush_in") IN
         IF FailsNext(r, f) THEN Throw(r1, "runtime_error")
         ELSE [r1 EXCEPT !.k.inq = <<>>]

\* Variant: FlushOutputBuffer that also empties the putback slot.
FlushOutputBuffer_ClearsSlot(r, f) ==
    IF r.err # "none" THEN r
    ELSE IF ~IsOpen(r) THEN Throw(r, "NotOpen")
    ELSE LET r1 == Sys(r, "tcflush_out") IN
         IF FailsNext(r, f) THEN Throw(r1, "runtime_error")
         ELSE [r1 EXCEPT !.k.outq = 0, !.k.pbAvail = FALSE]

FlushOutputBuffer(r, f) ==
    IF r.err # "none" THEN r
    ELSE IF ~IsOpen(r) THEN Throw(r, "NotOpen")
    ELSE LET r1 == Sys(r, "tcflush_out") IN
         IF FailsNext(r, f) THEN Throw(r1, "runtime_error")
         ELSE [r1 EXCEPT !.k.outq = 0]

FlushIOBuffers(r, f) ==
    IF r.err # "none" THEN r
    ELSE IF ~IsOpen(r) THEN Throw(r, "NotOpen")
    ELSE LET r1 == Sys(r, "tcflush_io") IN
         IF FailsNext(r, f) THEN Throw(r1, "runtime_error")
         ELSE [r1 EXCEPT !.k.inq = <<>>, !.k.outq = 0]

\* Variant: SetPortBlockingStatus with the two branches exchanged.
SetPortBlockingStatus_Exchanged(r, f, blockingStatus) ==
    IF r.err # "none" THEN r
    ELSE LET r1 == Sys(r, "fcntl_getfl")
             r2 == Sys(r1, "fcntl_setfl")
         IN IF FailsNext(r1, f) THEN Throw(r2, "runtime_error")
            ELSE [r2 EXCEPT !.k.nb = blockingStatus]

\* fcntl(F_GETFL) fails only on a descriptor that is not open (EBADF), and
\* then the fcntl(F_SETFL) that follows fails too: the outcome is that of a
\* failing F_SETFL.
SetPortBlockingStatus(r, f, blockingStatus) ==
    IF r.err # "none" THEN r
    ELSE LET r1 == Sys(r, "fcntl_getfl")
             r2 == Sys(r1, "fcntl_setfl")
         IN IF FailsNext(r1, f) THEN Throw(r2, "runtime_error")
            ELSE [r2 EXCEPT !.k.nb = ~blockingStatus]

\* flags1 == (flags1 | O_NONBLOCK) holds exactly when O_NONBLOCK is set in
\* flags1.
GetPortBlockingStatus(r) ==
    IF r.err # "none" THEN r
    ELSE LET r1 == Sys(r, "fcntl_getfl")
         IN Return(r1, r.k.nb)

\* ------------------------------------------------------------------ setters
SetBaudRate(r, f, baudRate) ==
    IF r.err # "none" THEN r
    ELSE IF ~IsOpen(r) THEN Throw(r, "NotOpen")
    ELSE LET r1 == Sys(r, "tcgetattr") IN
         IF FailsNext(r, f) THEN Throw(r1, "runtime_error")
         ELSE IF baudRate \notin ValidSpeeds
              THEN Throw(r1, "runtime_error")
              ELSE LET ps == [r.k.t EXCEPT !.ispeed = baudRate,
                                           !.ospeed = baudRate]
                       r2 == Sys(r1, "tcsetattr")
                   IN IF FailsNext(r1, f) THEN Throw(r2, "runtime_error")
                      ELSE [r2 EXCEPT !.k.t = ps]

\* Variant: SetCharacterSize that leaves ISTRIP as it finds it.
SetCharacterSize_KeepsStrip(r, f, characterSize) ==
    IF r.err # "none" THEN r
    ELSE IF ~IsOpen(r) THEN Throw(r, "NotOpen")
    ELSE LET r1 == Sys(r, "tcgetattr") IN
         IF FailsNext(r, f) THEN Throw(r1, "runtime_error")
         ELSE LET ps == [r.k.t EXCEPT !.csize = characterSize.csize,
                                      !.c_cflag = @ \cup characterSize.extra]
                  r2 == Sys(r1, "tcsetattr")
              IN IF FailsNext(r1, f) THEN Throw(r2, "runtime_error")
                 ELSE [r2 EXCEPT !.k.t = ps]

SetCharacterSize(r, f, characterSize) ==
    IF r.err # "none" THEN r
    ELSE IF ~IsOpen(r) THEN Throw(r, "NotOpen")
    ELSE LET r1 == Sys(r, "tcgetattr") IN
         IF FailsNext(r, f) THEN Throw(r1, "runtime_error")
         ELSE LET t0 == r.k.t
                  iflag == IF characterSize = CHAR_SIZE_8
                           THEN t0.c_iflag \ {"ISTRIP"}
                           ELSE t0.c_iflag \cup {"ISTRIP"}
                  ps == [t0 EXCEPT !.c_iflag = iflag,
                                   !.csize = characterSize.csize,
                                   !.c_cflag = @ \cup characterSize.extra]
                  r2 == Sys(r1, "tcsetattr")
              IN IF FailsNext(r1, f) THEN Throw(r2, "runtime_error")
                 ELSE [r2 EXCEPT !.k.t = ps]

\* Variant: SetFlowControl that tests its argument before it flushes.
SetFlowControl_ValidatesFirst(r, f, flowControlType) ==
    IF r.err # "none" THEN r
    ELSE IF ~IsOpen(r) THEN Throw(r, "NotOpen")
    ELSE IF flowControlType \notin {"FLOW_CONTROL_HARDWARE",
                                    "FLOW_CONTROL_SOFTWARE",
                                    "FLOW_CONTROL_NONE"}
         THEN Throw(r, "invalid_argument")
    ELSE LET r1 == Sys(r, "tcflush_io") IN
         IF FailsNext(r, f) THEN Throw(r1, "OpenFailed")
         ELSE LET r2 == Sys([r1 EXCEPT !.k.inq = <<>>, !.k.outq = 0],
                            "tcgetattr")
              IN
         IF FailsNext(r1, f) THEN Throw(r2, "runtime_error")
         ELSE LET t0 == r.k.t
                  ps ==
                       CASE flowControlType = "FLOW_CONTROL_HARDWARE" ->
                              [t0 EXCEPT !.c_iflag = @ \ {"IXON", "IXOFF"},
                                         !.c_cflag = @ \cup {"CRTSCTS"},
                                         !.vstart = POSIX_VDISABLE,
                                         !.vstop = POSIX_VDISABLE]
                         [] flowControlType = "FLOW_CONTROL_SOFTWARE" ->
                              [t0 EXCEPT !.c_iflag = @ \cup {"IXON", "IXOFF"},
                                         !.c_cflag = @ \ {"CRTSCTS"},
                                         !.vstart = CTRL_Q,
                                         !.vstop = CTRL_S]
                         [] OTHER ->
                              [t0 EXCEPT !.c_iflag = @ \ {"IXON", "IXOFF"},
                                         !.c_cflag = @ \ {"CRTSCTS"}]
                  r3 == Sys(r2, "tcsetattr")
              IN IF FailsNext(r2, f) THEN Throw(r3, "runtime_error")
                 ELSE [r3 EXCEPT !.k.t = ps]

SetFlowControl(r, f, flowControlType) ==
    IF r.err # "none" THEN r
    ELSE IF ~IsOpen(r) THEN Throw(r, "NotOpen")
    ELSE LET r1 == Sys(r, "tcflush_io") IN
         IF FailsNext(r, f) THEN Throw(r1, "OpenFailed")
         ELSE LET r2 == Sys([r1 EXCEPT !.k.inq = <<>>, !.k.outq = 0],
                            "tcgetattr")
              IN
         IF FailsNext(r1, f) THEN Throw(r2, "runtime_error")
         ELSE LET t0 == r.k.t IN
              IF flowControlType \notin {"FLOW_CONTROL_HARDWARE",
                                         "FLOW_CONTROL_SOFTWARE",
                                         "FLOW_CONTROL_NONE"}
              THEN Throw(r2, "invalid_argument")
              ELSE LET ps ==
                       CASE flowControlType = "FLOW_CONTROL_HARDWARE" ->
                              [t0 EXCEPT !.c_iflag = @ \ {"IXON", "IXOFF"},
                                         !.c_cflag = @ \cup {"CRTSCTS"},
                                         !.vstart = POSIX_VDISABLE,
                                         !.vstop = POSIX_VDISABLE]
                         [] flowControlType = "FLOW_CONTROL_SOFTWARE" ->
                              [t0 EXCEPT !.c_iflag = @ \cup {"IXON", "IXOFF"},
                                         !.c_cflag = @ \ {"CRTSCTS"},
                                         !.vstart = CTRL_Q,
                                         !.vstop = CTRL_S]
                         [] OTHER ->
                              [t0 EXCEPT !.c_iflag = @ \ {"IXON", "IXOFF"},
                                         !.c_cflag = @ \ {"CRTSCTS"}]
                       r3 == Sys(r2, "tcsetattr")
                   IN IF FailsNext(r2, f) THEN Throw(r3, "runtime_error")
                      ELSE [r3 EXCEPT !.k.t = ps]

\* Variant: SetParity that sets PARENB for odd parity only.
SetParity_OddOnly(r, f, parityType) ==
    IF r.err # "none" THEN r
    ELSE IF ~IsOpen(r) THEN Throw(r, "NotOpen")
    ELSE LET r1 == Sys(r, "tcgetattr") IN
         IF FailsNext(r, f) THEN Throw(r1, "runtime_error")
         ELSE LET t0 == r.k.t IN
              IF parityType \notin {"PARITY_EVEN", "PARITY_ODD", "PARITY_NONE"}
              THEN Throw(r1, "invalid_argument")
              ELSE LET ps ==
                       IF parityType = "PARITY_ODD"
                       THEN [t0 EXCEPT !.c_cflag = @ \cup {"PARENB", "PARODD"},
                                       !.c_iflag = @ \cup {"INPCK"}]
                       ELSE [t0 EXCEPT !.c_cflag = @ \ {"PARENB"},
                                       !.c_iflag = @ \cup {"IGNPAR"}]
                       r2 == Sys(r1, "tcsetattr")
                   IN IF FailsNext(r1, f) THEN Throw(r2, "runtime_error")
                      ELSE [r2 EXCEPT !.k.t = ps]

SetParity(r, f, parityType) ==
    IF r.err # "none" THEN r
    ELSE IF ~IsOpen(r) THEN Throw(r, "NotOpen")
    ELSE LET r1 == Sys(r, "tcgetattr") IN
         IF FailsNext(r, f) THEN Throw(r1, "runtime_error")
         ELSE LET t0 == r.k.t IN
              IF parityType \notin {"PARITY_EVEN", "PARITY_ODD", "PARITY_NONE"}
              THEN Throw(r1, "invalid_argument")
              ELSE LET ps ==
                       CASE parityType = "PARITY_EVEN" ->
                              [t0 EXCEPT !.c_cflag = (@ \cup {"PARENB"}) \ {"PARODD"},
                                         !.c_iflag = @ \cup {"INPCK"}]
                         [] parityType = "PARITY_ODD" ->
                              [t0 EXCEPT !.c_cflag = @ \cup {"PARENB", "PARODD"},
                                         !.c_iflag = @ \cup {"INPCK"}]
                         [] OTHER ->
                              [t0 EXCEPT !.c_cflag = @ \ {"PARENB"},
                                         !.c_iflag = @ \cup {"IGNPAR"}]
                       r2 == Sys(r1, "tcsetattr")
                   IN IF FailsNext(r1, f) THEN Throw(r2, "runtime_error")
                      ELSE [r2 EXCEPT !.k.t = ps]

\* Variant: SetNumberOfStopBits that assigns c_cflag instead of setting or
\* clearing CSTOPB in it.
SetNumberOfStopBits_Assigns(r, f, numberOfStopBits) ==
    IF r.err # "none" THEN r
    ELSE IF ~IsOpen(r) THEN Throw(r, "NotOpen")
    ELSE LET r1 == Sys(r, "tcgetattr") IN
         IF FailsNext(r, f) THEN Throw(r1, "runtime_error")
         ELSE LET t0 == r.k.t IN
              IF numberOfStopBits \notin {"STOP_BITS_1", "STOP_BITS_2"}
              THEN Throw(r1, "invalid_argument")
              ELSE LET ps == IF numberOfStopBits = "STOP_BITS_1"
                             THEN [t0 EXCEPT !.c_cflag = {}]
                             ELSE [t0 EXCEPT !.c_cflag = {"CSTOPB"}]
                       r2 == Sys(r1, "tcsetattr")
                   IN IF FailsNext(r1, f) THEN Throw(r2, "runtime_error")
                      ELSE [r2 EXCEPT !.k.t = ps]

SetNumberOfStopBits(r, f, numberOfStopBits) ==
    IF r.err # "none" THEN r
    ELSE IF ~IsOpen(r) THEN Throw(r, "NotOpen")
    ELSE LET r1 == Sys(r, "tcgetattr") IN
         IF FailsNext(r, f) THEN Throw(r1, "runtime_error")
         ELSE LET t0 == r.k.t IN
              IF numberOfStopBits \notin {"STOP_BITS_1", "STOP_BITS_2"}
              THEN Throw(r1, "invalid_argument")
              ELSE LET ps == IF numberOfStopBits = "STOP_BITS_1"
                             THEN [t0 EXCEPT !.c_cflag = @ \ {"CSTOPB"}]
                             ELSE [t0 EXCEPT !.c_cflag = @ \cup {"CSTOPB"}]
                       r2 == Sys(r1, "tcsetattr")
                   IN IF FailsNext(r1, f) THEN Throw(r2, "runtime_error")
                      ELSE [r2 EXCEPT !.k.t = ps]

SetVMin(r, f, vmin) ==
    IF r.err # "none" THEN r
    ELSE IF ~IsOpen(r) THEN Throw(r, "NotOpen")
    ELSE IF vmin < 0 \/ vmin > 255 THEN Throw(r, "invalid_argument")
    ELSE LET r1 == Sys(r, "tcgetattr") IN
         IF FailsNext(r, f) THEN Throw(r1, "runtime_error")
         ELSE LET ps == [r.k.t EXCEPT !.vmin = vmin % 256]
                  r2 == Sys(r1, "tcsetattr")
              IN IF FailsNext(r1, f) THEN Throw(r2, "runtime_error")
                 ELSE [r2 EXCEPT !.k.t = ps]

\* Variant: SetVTime without the range test.
SetVTime_Unchecked(r, f, vtime) ==
    IF r.err # "none" THEN r
    ELSE IF ~IsOpen(r) THEN Throw(r, "NotOpen")
    ELSE LET r1 == Sys(r, "tcgetattr") IN
         IF FailsNext(r, f) THEN Throw(r1, "runtime_error")
         ELSE LET ps == [r.k.t EXCEPT !.vtime = vtime % 256]
                  r2 == Sys(r1, "tcsetattr")
              IN IF FailsNext(r1, f) THEN Throw(r2, "runtime_error")
                 ELSE [r2 EXCEPT !.k.t = ps]

SetVTime(r, f, vtime) ==
    IF r.err # "none" THEN r
    ELSE IF ~IsOpen(r) THEN Throw(r, "NotOpen")
    ELSE IF vtime < 0 \/ vtime > 255 THEN Throw(r, "invalid_argument")
    ELSE LET r1 == Sys(r, "tcgetattr") IN
         IF FailsNext(r, f) THEN Throw(r1, "runtime_error")
         ELSE LET ps == [r.k.t EXCEPT !.vtime = vtime % 256]
                  r2 == Sys(r1, "tcsetattr")
              IN IF FailsNext(r1, f) THEN Throw(r2, "runtime_error")
                 ELSE [r2 EXCEPT !.k.t = ps]

\* The baseline SetParametersToDefault writes outright: c_iflag = IGNBRK,
\* c_oflag = 0, c_cflag = B115200 | CS8 | CLOCAL | CREAD, c_lflag = 0,
\* c_cc[VMIN] = c_cc[VTIME] = 0.  The speed lives in c_cflag, so assigning
\* c_cflag sets the speed cfgetispeed and cfgetospeed report.
DefaultBaseline(t0) ==
    [t0 EXCEPT !.c_iflag = {"IGNBRK"}, !.c_oflag = {},
               !.c_cflag = {"CLOCAL", "CREAD"}, !.csize = 8,
               !.ispeed = "B115200", !.ospeed = "B115200",
               !.c_lflag = {}, !.vmin = 0, !.vtime = 0]

\* Variant: SetParametersToDefault that reads the settings and writes nothing.
SetParametersToDefault_ReadsOnly(r, f) ==
    IF r.err # "none" THEN r
    ELSE IF ~IsOpen(r) THEN Throw(r, "NotOpen")
    ELSE LET r1 == Sys(r, "tcgetattr") IN
         IF FailsNext(r, f) THEN Throw(r1, "runtime_error")
         ELSE r1

SetParametersToDefault(r, f) ==
    IF r.err # "none" THEN r
    ELSE IF ~IsOpen(r) THEN Throw(r, "NotOpen")
    ELSE LET r1 == Sys(r, "tcgetattr") IN
         IF FailsNext(r, f) THEN Throw(r1, "runtime_error")
         ELSE LET r2 == Sys(r1, "tcsetattr") IN
         IF FailsNext(r1, f) THEN Throw(r2, "OpenFailed")
         ELSE LET s0 == [r2 EXCEPT !.k.t = DefaultBaseline(r.k.t)]
                  s1 == SetBaudRate(s0, f, BAUD_DEFAULT)
                  s2 == SetCharacterSize(s1, f, CHAR_SIZE_DEFAULT)
                  s3 == SetFlowControl(s2, f, FLOW_CONTROL_DEFAULT)
                  s4 == SetParity(s3, f, PARITY_DEFAULT)
                  s5 == SetNumberOfStopBits(s4, f, STOP_BITS_DEFAULT)
                  s6 == SetVMin(s5, f, VMIN_DEFAULT)
              IN SetVTime(s6, f, VTIME_DEFAULT)

\* ------------------------------------------------------------------ getters
\* Variant: GetBaudRate that returns the input speed without comparing it
\* with the output speed.
GetBaudRate_NoCompare(r, f) ==
    IF r.err # "none" THEN r
    ELSE IF ~IsOpen(r) THEN Throw(r, "NotOpen")
    ELSE LET r1 == Sys(r, "tcgetattr") IN
         IF FailsNext(r, f) THEN Throw(r1, "runtime_error")
         ELSE Return(r1, r.k.t.ispeed)

GetBaudRate(r, f) ==
    IF r.err # "none" THEN r
    ELSE IF ~IsOpen(r) THEN Throw(r, "NotOpen")
    ELSE LET r1 == Sys(r, "tcgetattr") IN
         IF FailsNext(r, f) THEN Throw(r1, "runtime_error")
         ELSE IF r.k.t.ispeed # r.k.t.ospeed
              THEN Throw(r1, "runtime_error")
              ELSE Return(r1, r.k.t.ispeed)

GetCharacterSize(r, f) ==
    IF r.err # "none" THEN r
    ELSE IF ~IsOpen(r) THEN Throw(r, "NotOpen")
    ELSE LET r1 == Sys(r, "tcgetattr") IN
         IF FailsNext(r, f) THEN Throw(r1, "runtime_error")
         ELSE Return(r1, CharSizeOf(r.k.t.csize))

\* Variant: GetFlowControl that does not compare the start and stop characters.
GetFlowControl_IgnoresChars(r, f) ==
    IF r.err # "none" THEN r
    ELSE IF ~IsOpen(r) THEN Throw(r, "NotOpen")
    ELSE LET r1 == Sys(r, "tcgetattr") IN
         IF FailsNext(r, f) THEN Throw(r1, "runtime_error")
         ELSE LET t0 == r.k.t IN
              IF "IXON" \in t0.c_iflag /\ "IXOFF" \in t0.c_iflag
              THEN Return(r1, "FLOW_CONTROL_SOFTWARE")
              ELSE IF ~("IXON" \in t0.c_iflag \/ "IXOFF" \in t0.c_iflag)
                   THEN IF "CRTSCTS" \in t0.c_cflag
                        THEN Return(r1, "FLOW_CONTROL_HARDWARE")
                        ELSE Return(r1, "FLOW_CONTROL_NONE")
                   ELSE Return(r1, "FLOW_CONTROL_INVALID")

GetFlowControl(r, f) ==
    IF r.err # "none" THEN r
    ELSE IF ~IsOpen(r) THEN Throw(r, "NotOpen")
    ELSE LET r1 == Sys(r, "tcgetattr") IN
         IF FailsNext(r, f) THEN Throw(r1, "runtime_error")
         ELSE LET t0 == r.k.t IN
              IF "IXON" \in t0.c_iflag /\ "IXOFF" \in t0.c_iflag
                 /\ CTRL_Q = t0.vstart /\ CTRL_S = t0.vstop
              THEN Return(r1, "FLOW_CONTROL_SOFTWARE")
              ELSE IF ~("IXON" \in t0.c_iflag \/ "IXOFF" \in t0.c_iflag)
                   THEN IF "CRTSCTS" \in t0.c_cflag
                        THEN Return(r1, "FLOW_CONTROL_HARDWARE")
                        ELSE Return(r1, "FLOW_CONTROL_NONE")
                   ELSE Return(r1, "FLOW_CONTROL_INVALID")

GetParity(r, f) ==
    IF r.err # "none" THEN r
    ELSE IF ~IsOpen(r) THEN Throw(r, "NotOpen")
    ELSE LET r1 == Sys(r, "tcgetattr") IN
         IF FailsNext(r, f) THEN Throw(r1, "runtime_error")
         ELSE IF "PARENB" \in r.k.t.c_cflag
              THEN IF "PARODD" \in r.k.t.c_cflag
                   THEN Return(r1, "PARITY_ODD")
                   ELSE Return(r1, "PARITY_EVEN")
              ELSE Return(r1, "PARITY_NONE")

GetNumberOfStopBits(r, f) ==
    IF r.err # "none" THEN r
    ELSE IF ~IsOpen(r) THEN Throw(r, "NotOpen")
    ELSE LET r1 == Sys(r, "tcgetattr") IN
         IF FailsNext(r, f) THEN Throw(r1, "runtime_error")
         ELSE IF "CSTOPB" \in r.k.t.c_cflag
              THEN Return(r1, "STOP_BITS_2")
              ELSE Return(r1, "STOP_BITS_1")

GetVMin(r, f) ==
    IF r.err # "none" THEN r
    ELSE IF ~IsOpen(r) THEN Throw(r, "NotOpen")
    ELSE LET r1 == Sys(r, "tcgetattr") IN
         IF FailsNext(r, f) THEN Throw(r1, "runtime_error")
         ELSE Return(r1, r.k.t.vmin)

GetVTime(r, f) ==
    IF r.err # "none" THEN r
    ELSE IF ~IsOpen(r) THEN Throw(r, "NotOpen")
    ELSE LET r1 == Sys(r, "tcgetattr") IN
         IF FailsNext(r, f) THEN Throw(r1, "runtime_error")
         ELSE Return(r1, r.k.t.vtime)

GetFileDescriptor(r) ==
    IF r.err # "none" THEN r
    ELSE IF ~IsOpen(r) THEN Throw(r, "NotOpen")
    ELSE Return(r, r.k.fd)

\* ------------------------------------------------------------ system calls
\* read(fd, buf, n): -1 on an error (rd < 0), 0 when nothing is queued,
\* otherwise the number of bytes handed over, which is at most n, at most
\* what is queued and (a short read) at most rd.
ReadCount(k, n, rd) ==
    IF rd < 0 THEN -1
    ELSE IF k.inq = <<>> THEN 0
    ELSE Min(Min(n, Len(k.inq)), IF rd < 1 THEN 1 ELSE rd)

\* write(fd, buf, n): -1 on an error, otherwise the number of bytes the
\* kernel queued, at most n, at most wr and at most the room in the queue.
WriteCount(k, n, wr) ==
    IF wr < 0 THEN -1
    ELSE Min(Min(n, wr), MaxOut - k.outq)

\* r after read() took c bytes (c >= 1) from the input queue.
TakeInput(r, c) == [r EXCEPT !.k.inq = SubSeq(@, c + 1, Len(@))]

\* traits_type::to_char_type followed by to_int_type: the low eight bits.
ToChar(c) == c % 256

\* traits_type::not_eof
NotEof(c) == IF c = eof THEN 0 ELSE c

\* ----------------------------------------------------------- stream adapter
\* Variant: xsputn that returns what write() returned, -1 included.
xsputn_RawCount(r, n, wr) ==
    IF r.err # "none" THEN r
    ELSE IF ~IsOpen(r) THEN Throw(r, "NotOpen")
    ELSE IF n <= 0 THEN Return(r, 0)
    ELSE LET r1 == Sys(r, "write")
             retval == WriteCount(r.k, n, wr)
         IN IF retval <= 0 THEN Return(r1, retval)
            ELSE Return([r1 EXCEPT !.k.outq = @ + retval], retval)

xsputn(r, n, wr) ==
    IF r.err # "none" THEN r
    ELSE IF ~IsOpen(r) THEN Throw(r, "NotOpen")
    ELSE IF n <= 0 THEN Return(r, 0)
    ELSE LET r1 == Sys(r, "write")
             retval == WriteCount(r.k, n, wr)
         IN IF retval <= 0 THEN Return(r1, 0)
            ELSE Return([r1 EXCEPT !.k.outq = @ + retval], retval)

xsgetn(r, n, rd) ==
    IF r.err # "none" THEN r
    ELSE IF ~IsOpen(r) THEN Throw(r, "NotOpen")
    ELSE IF n <= 0 THEN Return(r, 0)
    ELSE IF r.k.pbAvail
    THEN LET r1 == [r EXCEPT !.buf = <<r.k.pbChar>>, !.k.pbAvail = FALSE]
             \* retval++ on the initial -1
             retval0 == -1 + 1
         IN IF n > 1
            THEN LET r2 == Sys(r1, "read")
                     got == ReadCount(r.k, n - 1, rd)
                     r3 == IF got > 0
                           THEN [TakeInput(r2, got) EXCEPT
                                   !.buf = @ \o SubSeq(r.k.inq, 1, got)]
                           ELSE r2
                     retval == IF got # -1 THEN got + 1 ELSE got
                 IN IF retval <= 0 THEN Return(r3, 0) ELSE Return(r3, retval)
            ELSE IF retval0 <= 0 THEN Return(r1, 0) ELSE Return(r1, retval0)
    ELSE LET r2 == Sys(r, "read")
             retval == ReadCount(r.k, n, rd)
             r3 == IF retval > 0
                   THEN [TakeInput(r2, retval) EXCEPT
                           !.buf = SubSeq(r.k.inq, 1, retval)]
                   ELSE r2
         IN IF retval <= 0 THEN Return(r3, 0) ELSE Return(r3, retval)

overflow(r, character, wr) ==
    IF r.err # "none" THEN r
    ELSE IF ~IsOpen(r) THEN Throw(r, "NotOpen")
    ELSE IF character = eof THEN Return(r, eof)
    ELSE LET r1 == Sys(r, "write")
             retval == WriteCount(r.k, 1, wr)
         IN IF retval <= 0 THEN Return(r1, eof)
            ELSE Return([r1 EXCEPT !.k.outq = @ + retval], NotEof(character))

\* Variant: underflow that returns the byte it read without storing it in the
\* putback slot.
underflow_NoStore(r, rd) ==
    IF r.err # "none" THEN r
    ELSE IF ~IsOpen(r) THEN Throw(r, "NotOpen")
    ELSE IF r.k.pbAvail THEN Return(r, r.k.pbChar)
    ELSE LET r1 == Sys(r, "read")
             retval == ReadCount(r.k, 1, rd)
         IN IF retval = 1
            THEN Return(TakeInput(r1, 1), Head(r.k.inq))
            ELSE Return(r1, eof)

\* Variant: underflow that reads from the port whatever the putback slot holds.
underflow_Rereads(r, rd) ==
    IF r.err # "none" THEN r
    ELSE IF ~IsOpen(r) THEN Throw(r, "NotOpen")
    ELSE LET r1 == Sys(r, "read")
             retval == ReadCount(r.k, 1, rd)
         IN IF retval = 1
            THEN Return([TakeInput(r1, 1) EXCEPT !.k.pbChar = Head(r.k.inq),
                                                 !.k.pbAvail = TRUE],
                        Head(r.k.inq))
            ELSE Return(r1, eof)

underflow(r, rd) ==
    IF r.err # "none" THEN r
    ELSE IF ~IsOpen(r) THEN Throw(r, "NotOpen")
    ELSE IF r.k.pbAvail THEN Return(r, r.k.pbChar)
    ELSE LET r1 == Sys(r, "read")
             retval == ReadCount(r.k, 1, rd)
         IN IF retval = 1
            THEN Return([TakeInput(r1, 1) EXCEPT !.k.pbChar = Head(r.k.inq),
                                                 !.k.pbAvail = TRUE],
                        Head(r.k.inq))
            ELSE Return(r1, eof)

\* Variant: uflow that leaves mPutbackAvailable as underflow left it.
uflow_KeepsSlot(r, rd) ==
    IF r.err # "none" THEN r
    ELSE IF ~IsOpen(r) THEN Throw(r, "NotOpen")
    ELSE underflow(r, rd)

uflow(r, rd) ==
    IF r.err # "none" THEN r
    ELSE IF ~IsOpen(r) THEN Throw(r, "NotOpen")
    ELSE LET r1 == underflow(r, rd)
         IN [r1 EXCEPT !.k.pbAvail = FALSE]

\* Variant: pbackfail that stores the character in an occupied slot too.
pbackfail_Overwrites(r, character) ==
    IF r.err # "none" THEN r
    ELSE IF ~IsOpen(r) THEN Throw(r, "NotOpen")
    ELSE IF character = eof THEN Return(r, eof)
    ELSE Return([r EXCEPT !.k.pbChar = ToChar(character),
                          !.k.pbAvail = TRUE],
                NotEof(character))

pbackfail(r, character) ==
    IF r.err # "none" THEN r
    ELSE IF ~IsOpen(r) THEN Throw(r, "NotOpen")
    ELSE IF r.k.pbAvail THEN Return(r, eof)
    ELSE IF character = eof THEN Return(r, eof)
    ELSE Return([r EXCEPT !.k.pbChar = ToChar(character),
                          !.k.pbAvail = TRUE],
                NotEof(character))

\* Variant: showmanyc that marks the slot pending and returns 1 whatever the
\* read returned.
showmanyc_AlwaysOne(r, f, rd) ==
    IF r.err # "none" THEN r
    ELSE IF ~IsOpen(r) THEN Throw(r, "NotOpen")
    ELSE IF r.k.pbAvail THEN Return(r, 1)
    ELSE LET flags == r.k.nb
             r1 == Sys(r, "fcntl_getfl")
             r2 == Sys(r1, "fcntl_setfl")
         IN IF FailsNext(r1, f) THEN Return(r2, -1)
            ELSE LET r3 == Sys([r2 EXCEPT !.k.nb = TRUE], "read")
                     got == ReadCount(r.k, 1, rd)
                     r4 == IF got = 1
                           THEN [TakeInput(r3, 1) EXCEPT
                                   !.k.pbChar = Head(r.k.inq),
                                   !.k.pbAvail = TRUE]
                           ELSE [r3 EXCEPT !.k.pbAvail = TRUE]
                     r5 == Sys(r4, "fcntl_setfl")
                 IN IF FailsNext(r4, f) THEN Return(r5, -1)
                    ELSE Return([r5 EXCEPT !.k.nb = flags], 1)

\* Variant: showmanyc that returns without the second fcntl(F_SETFL).
showmanyc_NoRestore(r, f, rd) ==
    IF r.err # "none" THEN r
    ELSE IF ~IsOpen(r) THEN Throw(r, "NotOpen")
    ELSE IF r.k.pbAvail THEN Return(r, 1)
    ELSE LET r1 == Sys(r, "fcntl_getfl")
             r2 == Sys(r1, "fcntl_setfl")
         IN IF FailsNext(r1, f) THEN Return(r2, -1)
            ELSE LET r3 == Sys([r2 EXCEPT !.k.nb = TRUE], "read")
                     got == ReadCount(r.k, 1, rd)
                     r4 == IF got = 1
                           THEN [TakeInput(r3, 1) EXCEPT
                                   !.k.pbChar = Head(r.k.inq),
                                   !.k.pbAvail = TRUE]
                           ELSE r3
                 IN Return(r4, IF got = 1 THEN 1 ELSE 0)

showmanyc(r, f, rd) ==
    IF r.err # "none" THEN r
    ELSE IF ~IsOpen(r) THEN Throw(r, "NotOpen")
    ELSE IF r.k.pbAvail THEN Return(r, 1)
    ELSE LET flags == r.k.nb
             r1 == Sys(r, "fcntl_getfl")
             r2 == Sys(r1, "fcntl_setfl")
         IN IF FailsNext(r1, f) THEN Return(r2, -1)
            ELSE LET r3 == Sys([r2 EXCEPT !.k.nb = TRUE], "read")
                     got == ReadCount(r.k, 1, rd)
                     r4 == IF got = 1
                           THEN [TakeInput(r3, 1) EXCEPT
                                   !.k.pbChar = Head(r.k.inq),
                                   !.k.pbAvail = TRUE]
                           ELSE r3
                     retval == IF got = 1 THEN 1 ELSE 0
                     r5 == Sys(r4, "fcntl_setfl")
                 IN IF FailsNext(r4, f) THEN Return(r5, -1)
                    ELSE Return([r5 EXCEPT !.k.nb = flags], retval)

\* Variant: IsDataAvailable that does not test the result of ioctl().
IsDataAvailable_IgnoresResult(r, f) ==
    IF r.err # "none" THEN r
    ELSE IF ~IsOpen(r) THEN Throw(r, "NotOpen")
    ELSE LET r1 == Sys(r, "ioctl_fionread")
             num_of_bytes_available == Len(r.k.inq)
         IN Return(r1, num_of_bytes_available > 0)

IsDataAvailable(r, f) ==
    IF r.err # "none" THEN r
    ELSE IF ~IsOpen(r) THEN Throw(r, "NotOpen")
    ELSE LET r1 == Sys(r, "ioctl_fionread")
             result == IF FailsNext(r, f) THEN -1 ELSE 0
             num_of_bytes_available == IF result >= 0 THEN Len(r.k.inq) ELSE 0
         IN Return(r1, result >= 0 /\ num_of_bytes_available > 0)

\* ---------------------------------------------------------------- lifecycle
InitializeSerialPort(r, f) ==
    IF r.err # "none" THEN r
    ELSE IF ~IsOpen(r) THEN Throw(r, "NotOpen")
    ELSE LET s1 == SetParametersToDefault(r, f)
             s2 == FlushIOBuffers(s1, f)
         IN SetPortBlockingStatus(s2, f, TRUE)

\* The baseline Open applies: a zeroed termios with CREAD | CLOCAL.
OpenBaseline ==
    [ZeroTermios EXCEPT !.c_cflag = {"CREAD", "CLOCAL"},
                        !.vmin = 0, !.vtime = 0]

\* Variant: Open that opens the port for reading and writing when the mode is
\* none of the three.
Open_AnyMode(r, f, openMode) ==
    IF r.err # "none" THEN r
    ELSE IF IsOpen(r) THEN Throw(r, "AlreadyOpen")
    ELSE LET r1 == Sys(r, "open") IN
         IF FailsNext(r, f)
         THEN Throw(Sys(r1, "close"), "OpenFailed")
         ELSE LET o1 == [r1 EXCEPT !.k.fd = FdValue, !.k.nb = TRUE]
                  r2 == Sys(o1, "tcgetattr")
              IN
         IF FailsNext(o1, f) THEN Throw(r2, "OpenFailed")
         ELSE LET r3 == Sys([r2 EXCEPT !.k.old = r.k.t], "tcsetattr") IN
         IF FailsNext(r2, f) THEN Throw(r3, "OpenFailed")
         ELSE LET r4 == FlushIOBuffers([r3 EXCEPT !.k.t = OpenBaseline], f)
              IN InitializeSerialPort(r4, f)

\* Variant: Open without the IsOpen test.
Open_Again(r, f, openMode) ==
    IF r.err # "none" THEN r
    ELSE IF openMode \notin {"in|out", "in", "out"} THEN r
    ELSE LET r1 == Sys(r, "open") IN
         IF FailsNext(r, f)
         THEN Throw(Sys(r1, "close"), "OpenFailed")
         ELSE LET o1 == [r1 EXCEPT !.k.fd = FdValue, !.k.nb = TRUE]
                  r2 == Sys(o1, "tcgetattr")
              IN
         IF FailsNext(o1, f) THEN Throw(r2, "OpenFailed")
         ELSE LET r3 == Sys([r2 EXCEPT !.k.old = r.k.t], "tcsetattr") IN
         IF FailsNext(r2, f) THEN Throw(r3, "OpenFailed")
         ELSE LET r4 == FlushIOBuffers([r3 EXCEPT !.k.t = OpenBaseline], f)
              IN InitializeSerialPort(r4, f)

Open(r, f, openMode) ==
    IF r.err # "none" THEN r
    ELSE IF IsOpen(r) THEN Throw(r, "AlreadyOpen")
    ELSE IF openMode \notin {"in|out", "in", "out"} THEN r
    ELSE LET r1 == Sys(r, "open") IN
         IF FailsNext(r, f)
         THEN Throw(Sys(r1, "close"), "OpenFailed")
         ELSE LET o1 == [r1 EXCEPT !.k.fd = FdValue, !.k.nb = TRUE]
                  r2 == Sys(o1, "tcgetattr")
              IN
         IF FailsNext(o1, f) THEN Throw(r2, "OpenFailed")
         ELSE LET r3 == Sys([r2 EXCEPT !.k.old = r.k.t], "tcsetattr") IN
         IF FailsNext(r2, f) THEN Throw(r3, "OpenFailed")
         ELSE LET r4 == FlushIOBuffers([r3 EXCEPT !.k.t = OpenBaseline], f)
              IN InitializeSerialPort(r4, f)

\* Variant: Close that sets mFileDescriptor to -1 before it calls close().
Close_InvalidatesFirst(r, f) ==
    IF r.err # "none" THEN r
    ELSE IF ~IsOpen(r) THEN Throw(r, "NotOpen")
    ELSE LET r1 == Sys(r, "tcsetattr") IN
         IF FailsNext(r, f) THEN Throw(r1, "runtime_error")
         ELSE LET r2 == Sys([r1 EXCEPT !.k.t = r.k.old, !.k.fd = -1], "close")
              IN
         IF FailsNext(r1, f) THEN Throw(r2, "runtime_error")
         ELSE [r2 EXCEPT !.k.nb = FALSE, !.k.inq = <<>>, !.k.outq = 0]

\* Variant: Close without the tcsetattr of mOldPortSettings.
Close_KeepsSettings(r, f) ==
    IF r.err # "none" THEN r
    ELSE IF ~IsOpen(r) THEN Throw(r, "NotOpen")
    ELSE LET r2 == Sys(r, "close") IN
         IF FailsNext(r, f) THEN Throw(r2, "runtime_error")
         ELSE [r2 EXCEPT !.k.fd = -1, !.k.nb = FALSE,
                         !.k.inq = <<>>, !.k.outq = 0]

\* A close() that fails leaves mFileDescriptor set.  Whether the system has
\* released the descriptor nevertheless is not modelled as state: on a
\* released descriptor every later system call fails, and a failure of any
\* system call is already an outcome of every action.
Close(r, f) ==
    IF r.err # "none" THEN r
    ELSE IF ~IsOpen(r) THEN Throw(r, "NotOpen")
    ELSE LET r1 == Sys(r, "tcsetattr") IN
         IF FailsNext(r, f) THEN Throw(r1, "runtime_error")
         ELSE LET r2 == Sys([r1 EXCEPT !.k.t = r.k.old], "close") IN
         IF FailsNext(r1, f) THEN Throw(r2, "runtime_error")
         ELSE [r2 EXCEPT !.k.fd = -1, !.k.nb = FALSE,
                         !.k.inq = <<>>, !.k.outq = 0]

\* ------------------------------------------------------------------ actions
\* The caller, idle, calls member function `name`, which ends as r.
Commit(name, r) ==
    /\ op = "idle"
    /\ mFileDescriptor' = r.k.fd
    /\ mOldPortSettings' = r.k.old
    /\ mPutbackAvailable' = r.k.pbAvail
    /\ mPutbackChar' = r.k.pbChar
    /\ termios' = r.k.t
    /\ nonblock' = r.k.nb
    /\ inq' = r.k.inq
    /\ outq' = r.k.outq
    /\ op' = name
    /\ err' = r.err
    /\ ret' = r.ret
    /\ calls' = r.calls
    /\ buf' = r.buf
    /\ preOpen' = IF name = "Open" /\ r.calls # <<>> THEN termios ELSE preOpen
    /\ openOk' = IF name = "Open" /\ r.calls # <<>> THEN r.err = "none"
                 ELSE openOk
    /\ probeFailed' = IF name = "Open" /\ r.calls # <<>> THEN FALSE
                      ELSE IF name = "showmanyc" /\ r.err = "none" /\ r.ret = -1
                           THEN TRUE
                           ELSE probeFailed

\* Input domains of the calls.
OpenModes == {"in|out", "in", "out", "app"}
Counts == 0 .. MaxN
ReadLimits == {-1} \cup (1 .. MaxN)
WriteLimits == -1 .. MaxN
PutChars == Bytes \cup {eof}

\* F: which of the system calls of the member function may fail.
CallOpen(F) ==
    \E m \in OpenModes, f \in F : Commit("Open", Open(Start, f, m))

CallIsOpen ==
    Commit("IsOpen", Return(Start, IsOpen(Start)))

CallClose ==
    \E f \in 0 .. 2 : Commit("Close", Close(Start, f))

CallFlushInputBuffer ==
    \E f \in 0 .. 1 : Commit("FlushInputBuffer", FlushInputBuffer(Start, f))

CallFlushOutputBuffer ==
    \E f \in 0 .. 1 : Commit("FlushOutputBuffer", FlushOutputBuffer(Start, f))

CallFlushIOBuffers ==
    \E f \in 0 .. 1 : Commit("FlushIOBuffers", FlushIOBuffers(Start, f))

CallInitializeSerialPort(F) ==
    \E f \in F :
        Commit("InitializeSerialPort", InitializeSerialPort(Start, f))

CallIsDataAvailable ==
    \E f \in 0 .. 1 : Commit("IsDataAvailable", IsDataAvailable(Start, f))

CallSetParametersToDefault(F) ==
    \E f \in F :
        Commit("SetParametersToDefault", SetParametersToDefault(Start, f))

CallSetBaudRate(S) ==
    \E b \in S, f \in 0 .. 2 : Commit("SetBaudRate", SetBaudRate(Start, f, b))

CallSetCharacterSize(S) ==
    \E c \in S, f \in 0 .. 2 :
        Commit("SetCharacterSize", SetCharacterSize(Start, f, c))

CallSetFlowControl(S) ==
    \E c \in S, f \in 0 .. 3 :
        Commit("SetFlowControl", SetFlowControl(Start, f, c))

CallSetParity(S) ==
    \E c \in S, f \in 0 .. 2 : Commit("SetParity", SetParity(Start, f, c))

CallSetNumberOfStopBits(S) ==
    \E c \in S, f \in 0 .. 2 :
        Commit("SetNumberOfStopBits", SetNumberOfStopBits(Start, f, c))

CallSetVMin(S) ==
    \E v \in S, f \in 0 .. 2 : Commit("SetVMin", SetVMin(Start, f, v))

CallSetVTime(S) ==
    \E v \in S, f \in 0 .. 2 : Commit("SetVTime", SetVTime(Start, f, v))

CallGetBaudRate ==
    \E f \in 0 .. 1 : Commit("GetBaudRate", GetBaudRate(Start, f))

CallGetCharacterSize ==
    \E f \in 0 .. 1 : Commit("GetCharacterSize", GetCharacterSize(Start, f))

CallGetFlowControl ==
    \E f \in 0 .. 1 : Commit("GetFlowControl", GetFlowControl(Start, f))

CallGetParity ==
    \E f \in 0 .. 1 : Commit("GetParity", GetParity(Start, f))

CallGetNumberOfStopBits ==
    \E f \in 0 .. 1 :
        Commit("GetNumberOfStopBits", GetNumberOfStopBits(Start, f))

CallGetVMin ==
    \E f \in 0 .. 1 : Commit("GetVMin", GetVMin(Start, f))

CallGetVTime ==
    \E f \in 0 .. 1 : Commit("GetVTime", GetVTime(Start, f))

CallGetFileDescriptor ==
    Commit("GetFileDescriptor", GetFileDescriptor(Start))

Callxsputn ==
    \E n \in Counts, wr \in WriteLimits : Commit("xsputn", xsputn(Start, n, wr))

Callxsgetn ==
    \E n \in Counts, rd \in ReadLimits : Commit("xsgetn", xsgetn(Start, n, rd))

Calloverflow ==
    \E c \in PutChars, wr \in WriteLimits :
        Commit("overflow", overflow(Start, c, wr))

Callunderflow ==
    \E rd \in ReadLimits : Commit("underflow", underflow(Start, rd))

Calluflow ==
    \E rd \in ReadLimits : Commit("uflow", uflow(Start, rd))

Callpbackfail ==
    \E c \in PutChars : Commit("pbackfail", pbackfail(Start, c))

Callshowmanyc ==
    \E f \in 0 .. 4, rd \in ReadLimits :
        Commit("showmanyc", showmanyc(Start, f, rd))

\* The line delivers a byte to the open port.
Arrive ==
    /\ op = "idle"
    /\ mFileDescriptor # -1 /\ Len(inq) < MaxQueue
    /\ \E b \in Bytes : inq' = Append(inq, b)
    /\ UNCHANGED <<prog, termios, nonblock, outq, obs, hist>>

\* The device sends a queued byte.
Transmit ==
    /\ op = "idle"
    /\ outq > 0
    /\ outq' = outq - 1
    /\ UNCHANGED <<prog, termios, nonblock, inq, obs, hist>>

\* The caller has taken the outcome of the call and goes on.  A constructor
\* that raised has left no object to go on with.
Resume ==
    /\ op # "idle"
    /\ ~(op = "Implementation" /\ err # "none")
    /\ op' = "idle" /\ err' = "none" /\ ret' = 0 /\ calls' = <<>>
    /\ buf' = <<>>
    /\ UNCHANGED <<prog, kern, hist>>

\* After the default constructor, on a device found in one of the settings S.
InitOn(S) ==
    /\ mFileDescriptor = -1
    /\ mOldPortSettings = ZeroTermios
    /\ mPutbackAvailable = FALSE
    /\ mPutbackChar = 0
    /\ termios \in S
    /\ nonblock = FALSE
    /\ inq = <<>>
    /\ outq = 0
    /\ op = "idle" /\ err = "none" /\ ret = 0 /\ calls = <<>>
    /\ buf = <<>>
    /\ preOpen = ZeroTermios
    /\ openOk = FALSE
    /\ probeFailed = FALSE

GetterCalls ==
    \/ CallGetBaudRate
    \/ CallGetCharacterSize
    \/ CallGetFlowControl
    \/ CallGetParity
    \/ CallGetNumberOfStopBits
    \/ CallGetVMin
    \/ CallGetVTime
    \/ CallGetFileDescriptor

FlushCalls ==
    \/ CallFlushInputBuffer
    \/ CallFlushOutputBuffer
    \/ CallFlushIOBuffers

IOCalls ==
    \/ Callxsputn
    \/ Callxsgetn
    \/ Calloverflow
    \/ Callunderflow
    \/ Calluflow
    \/ Callpbackfail
    \/ Callshowmanyc
    \/ CallIsDataAvailable
    \/ Arrive
    \/ Transmit

\* Every operation of the class on one port.  Bytes arrive and are read and
\* written in every order; the configuration calls are made with the default
\* and with out-of-domain values, and Open fails in open() itself or in its
\* last system call, the fcntl(F_SETFL) that makes the port blocking.
Init == InitOn({CookedTermios})

Next ==
    \/ Resume
    \/ CallOpen({0, 1, 24})
    \/ CallIsOpen
    \/ CallClose
    \/ CallInitializeSerialPort(0 .. 20)
    \/ CallSetParametersToDefault(0 .. 17)
    \/ CallSetBaudRate({BAUD_DEFAULT, "BAUD_INVALID"})
    \/ CallSetCharacterSize({CHAR_SIZE_DEFAULT})
    \/ CallSetFlowControl({FLOW_CONTROL_DEFAULT, "FLOW_CONTROL_INVALID"})
    \/ CallSetParity({PARITY_DEFAULT, "PARITY_INVALID"})
    \/ CallSetNumberOfStopBits({STOP_BITS_DEFAULT, "STOP_BITS_OTHER"})
    \/ CallSetVMin({VMIN_DEFAULT, -1, 256})
    \/ CallSetVTime({VTIME_DEFAULT, -1, 256})
    \/ GetterCalls
    \/ FlushCalls
    \/ IOCalls

Spec == Init /\ [][Next]_vars

\* The configuration manager on a device found in either of InitSettings:
\* Open failing at each of its system calls, and every setter with a value
\* other than the default, and every getter.  No byte arrives or is written.
InitCfg == InitOn(InitSettings)

NextCfg ==
    \/ Resume
    \/ CallOpen(0 .. 24)
    \/ CallClose
    \/ CallSetParametersToDefault(0 .. 17)
    \/ CallSetBaudRate({"B9600", "BAUD_INVALID"})
    \/ CallSetCharacterSize({CHAR_SIZE_7, CHAR_SIZE_INVALID})
    \/ CallSetFlowControl({"FLOW_CONTROL_SOFTWARE", "FLOW_CONTROL_INVALID"})
    \/ CallSetParity({"PARITY_ODD", "PARITY_INVALID"})
    \/ CallSetNumberOfStopBits({"STOP_BITS_2", "STOP_BITS_OTHER"})
    \/ CallSetVMin({-1, 255})
    \/ CallSetVTime({256, 255})
    \/ GetterCalls

SpecCfg == InitCfg /\ [][NextCfg]_vars

\* The stream-buffer adapter on a port whose Open fails at each of its system
\* calls: bytes arrive and are read, peeked, pushed back, probed, written and
\* flushed in every order.  No setter is called.
InitIO == InitOn({CookedTermios})

NextIO ==
    \/ Resume
    \/ CallOpen(0 .. 24)
    \/ CallClose
    \/ CallInitializeSerialPort(0 .. 20)
    \/ FlushCalls
    \/ IOCalls

SpecIO == InitIO /\ [][NextIO]_vars

\* A reader on a port opened once after the default constructor: bytes arrive
\* and are peeked, read and probed in every order.  Nothing is pushed back,
\* flushed or closed.
InitRead == InitOn({CookedTermios})

NextRead ==
    \/ Resume
    \/ CallOpen({0})
    \/ Callunderflow
    \/ Calluflow
    \/ Callxsgetn
    \/ Callshowmanyc
    \/ Arrive

SpecRead == InitRead /\ [][NextRead]_vars

\* The constructor with a file name and five settings: its initializer list
\* sets mFileDescriptor only (mOldPortSettings has a default member
\* initializer), then the body opens the port and calls five setters.  r is
\* the object as the initializer list leaves it; the f-th system call of the
\* constructor fails.  An exception leaves the body at the call that raised
\* it.
\* Variant: the constructor calling SetParity before SetFlowControl.
Implementation_ParityFirst(r, f, baudRate, characterSize, flowControl, parity, stopBits) ==
    LET s0 == Open(r, f, "in|out")
        s1 == SetBaudRate(s0, f, baudRate)
        s2 == SetCharacterSize(s1, f, characterSize)
        s3 == SetParity(s2, f, parity)
        s4 == SetFlowControl(s3, f, flowControl)
    IN SetNumberOfStopBits(s4, f, stopBits)

Implementation(r, f, baudRate, characterSize, flowControl, parity, stopBits) ==
    LET s0 == Open(r, f, "in|out")
        s1 == SetBaudRate(s0, f, baudRate)
        s2 == SetCharacterSize(s1, f, characterSize)
        s3 == SetFlowControl(s2, f, flowControl)
        s4 == SetParity(s3, f, parity)
    IN SetNumberOfStopBits(s4, f, stopBits)

\* mPutbackAvailable and mPutbackChar are read without having been
\* initialized when that constructor built the object: each holds whatever
\* the allocated memory held.
Uninitialized ==
    {[pbAvail |-> a, pbChar |-> c] : a \in BOOLEAN, c \in {0} \cup Bytes}

\* The system calls the constructor with a file name issues, at most.
MaxCtorCalls == 35

\* The outcomes of construction: the default constructor's closed object, and
\* what the other constructor leaves, having returned or raised, on a device
\* found in the settings CookedTermios.
Constructed ==
    LET fresh(a, c) ==
            [k |-> [fd |-> -1, old |-> ZeroTermios,
                    pbAvail |-> a, pbChar |-> c,
                    t |-> CookedTermios, nb |-> FALSE,
                    inq |-> <<>>, outq |-> 0],
             err |-> "none", ret |-> 0, calls |-> <<>>, buf |-> <<>>]
    IN {fresh(FALSE, 0)}
       \cup {Implementation(fresh(u.pbAvail, u.pbChar), f, b, CHAR_SIZE_7,
                            fc, pa, sb) :
                 u \in Uninitialized, f \in 0 .. MaxCtorCalls,
                 b \in {"B9600", "BAUD_INVALID"},
                 fc \in {"FLOW_CONTROL_SOFTWARE", "FLOW_CONTROL_INVALID"},
                 pa \in {"PARITY_ODD", "PARITY_INVALID"},
                 sb \in {"STOP_BITS_2", "STOP_BITS_OTHER"}}

\* A constructor has ended as r.  When it returned, the caller holds the
\* object and has called nothing else; when it raised, there is no object.
InitCtor ==
    \E r \in Constructed :
        /\ mFileDescriptor = r.k.fd
        /\ mOldPortSettings = r.k.old
        /\ mPutbackAvailable = r.k.pbAvail
        /\ mPutbackChar = r.k.pbChar
        /\ termios = r.k.t
        /\ nonblock = r.k.nb
        /\ inq = r.k.inq
        /\ outq = r.k.outq
        /\ op = "Implementation" /\ err = r.err /\ ret = 0
        /\ calls = r.calls
        /\ buf = <<>>
        /\ preOpen = (IF r.calls # <<>> THEN CookedTermios ELSE ZeroTermios)
        /\ openOk = (r.k.fd # -1 /\ r.err = "none")
        /\ probeFailed = FALSE

NextCtor ==
    \/ Resume
    \/ CallOpen({0})
    \/ CallClose
    \/ Callunderflow
    \/ Calluflow
    \/ Callxsgetn
    \/ Callpbackfail
    \/ Callshowmanyc
    \/ Arrive

SpecCtor == InitCtor /\ [][NextCtor]_vars

\* ------------------------------------------------------------------ claims
putback == <<mPutbackAvailable, mPutbackChar>>

\* C1: a Close that succeeds on a port opened by a successful Open leaves the
\* device with the settings it had immediately before that Open, whatever
\* setters were called in between; while the port is open no operation
\* changes mOldPortSettings, which holds those settings.
C1_CloseRestoresSettings ==
    [][ /\ (op' = "Close" /\ err' = "none" /\ openOk) => termios' = preOpen
        /\ mFileDescriptor # -1 => mOldPortSettings' = mOldPortSettings
        /\ (openOk' /\ mFileDescriptor' # -1) => mOldPortSettings' = preOpen'
      ]_vars

\* C1 happens: a successful Close has put back settings that are not the
\* defaults the port ran with.
C1_Witness ==
    /\ op = "Close" /\ err = "none" /\ openOk
    /\ mFileDescriptor = -1
    /\ termios = SplitTermios /\ preOpen = SplitTermios

\* C2: Open on an open instance raises AlreadyOpen, issues no system call and
\* leaves mFileDescriptor, mOldPortSettings and the device settings as they
\* were; Close on a closed instance raises NotOpen and the instance stays
\* closed.
C2_WrongStateRejected ==
    [][ /\ (op' = "Open" /\ mFileDescriptor # -1) =>
              /\ err' = "AlreadyOpen" /\ calls' = <<>>
              /\ UNCHANGED <<mFileDescriptor, mOldPortSettings, termios>>
        /\ (op' = "Close" /\ mFileDescriptor = -1) =>
              /\ err' = "NotOpen" /\ calls' = <<>>
              /\ mFileDescriptor' = -1
      ]_vars

\* C2 happens: Open was rejected on an open port whose settings differ from
\* the saved ones.
C2_Witness ==
    /\ op = "Open" /\ err = "AlreadyOpen"
    /\ mFileDescriptor = FdValue
    /\ mOldPortSettings # termios

\* C3: on a closed instance every operation other than Open and IsOpen raises
\* NotOpen, issues no system call and leaves mFileDescriptor and the putback
\* slot unchanged.
C3_ClosedRejectsAll ==
    [][ (mFileDescriptor = -1 /\ op' \notin {"idle", "Open", "IsOpen"}) =>
            /\ err' = "NotOpen" /\ calls' = <<>>
            /\ UNCHANGED <<mFileDescriptor, putback>>
      ]_vars

\* C3 happens: a read was rejected on a closed instance that still holds a
\* putback byte.
C3_Witness ==
    /\ op = "xsgetn" /\ err = "NotOpen"
    /\ mFileDescriptor = -1
    /\ mPutbackAvailable

\* What the seven getters return on the port as it is, none of them failing.
DefaultsReported(r) ==
    /\ GetBaudRate(r, 0).err = "none"
    /\ GetBaudRate(r, 0).ret = BAUD_DEFAULT
    /\ GetCharacterSize(r, 0).err = "none"
    /\ GetCharacterSize(r, 0).ret = CHAR_SIZE_8
    /\ GetFlowControl(r, 0).err = "none"
    /\ GetFlowControl(r, 0).ret = "FLOW_CONTROL_NONE"
    /\ GetParity(r, 0).err = "none"
    /\ GetParity(r, 0).ret = "PARITY_NONE"
    /\ GetNumberOfStopBits(r, 0).err = "none"
    /\ GetNumberOfStopBits(r, 0).ret = "STOP_BITS_1"
    /\ GetVMin(r, 0).err = "none"
    /\ GetVMin(r, 0).ret = 0
    /\ GetVTime(r, 0).err = "none"
    /\ GetVTime(r, 0).ret = 0

\* C4: when Open has opened the port without an error, and when
\* SetParametersToDefault has returned without an error, each of the seven
\* getters returns its default: BAUD_DEFAULT, 8 bits, no flow control, no
\* parity, 1 stop bit, VMIN 0, VTIME 0.
C4_DefaultsAfterInit ==
    (/\ op \in {"Open", "SetParametersToDefault"}
     /\ err = "none"
     /\ mFileDescriptor # -1) => DefaultsReported(Start)

\* C4 happens: SetParametersToDefault has succeeded on a port that an Open
\* left half configured, with the settings the device was found in.
C4_Witness ==
    /\ op = "SetParametersToDefault" /\ err = "none"
    /\ ~openOk
    /\ mOldPortSettings = SplitTermios

\* C5: between operations, a port opened by a successful Open is in blocking
\* mode unless showmanyc has returned -1 since.
C5_BlockingBetweenCalls ==
    (openOk /\ mFileDescriptor # -1 /\ ~probeFailed) => ~nonblock

\* C5 happens: a probe has switched the port to non-blocking mode, read a
\* byte and switched back.
C5_Witness ==
    /\ openOk /\ mFileDescriptor # -1 /\ ~probeFailed
    /\ op = "showmanyc" /\ ret = 1 /\ Len(calls) = 4
    /\ ~nonblock

\* C6: showmanyc returning 0 or 1 leaves the blocking mode as it was before
\* the call; when the fcntl(F_SETFL) that switches the mode, or the one that
\* restores it, fails, showmanyc returns -1.
C6_ProbeKeepsMode ==
    [][ /\ (op' = "showmanyc" /\ err' = "none" /\ ret' \in {0, 1}) =>
              nonblock' = nonblock
        /\ (op' = "showmanyc" /\ Len(calls') = 2) => ret' = -1
        /\ (mFileDescriptor # -1 /\ ~mPutbackAvailable) =>
              \A rd \in ReadLimits :
                  /\ showmanyc(Start, 2, rd).ret = -1
                  /\ showmanyc(Start, 4, rd).ret = -1
      ]_vars

\* C6 happens: on a blocking port the probe's read delivered nothing, 0 was
\* returned and the port is blocking.
C6_Witness ==
    /\ op = "showmanyc" /\ err = "none" /\ ret = 0
    /\ Len(calls) = 4
    /\ openOk /\ ~probeFailed /\ ~nonblock

\* C7: pbackfail on an occupied putback slot returns eof and leaves
\* mPutbackAvailable and mPutbackChar unchanged; an occupied slot stays as it
\* is until uflow or xsgetn consumes it, so the second of two pbackfail calls
\* with no consuming read between them fails.
C7_OnePutback ==
    [][ /\ (op' = "pbackfail" /\ mFileDescriptor # -1 /\ mPutbackAvailable) =>
              /\ err' = "none" /\ ret' = eof
              /\ UNCHANGED putback
        /\ (mPutbackAvailable /\ op' \notin {"uflow", "xsgetn"}) =>
              UNCHANGED putback
      ]_vars

\* C7 happens: pbackfail has failed on an open port with a byte pending.
C7_Witness ==
    /\ op = "pbackfail" /\ err = "none" /\ ret = eof
    /\ mFileDescriptor # -1
    /\ mPutbackAvailable /\ mPutbackChar \in Bytes

\* C8: an underflow that returns a byte leaves that byte pending, having
\* issued at most one read; with a byte pending, underflow returns it again
\* without a read and leaves the slot as it is, and uflow returns it without
\* a read and empties the slot; with the slot empty, underflow, uflow and
\* xsgetn of at least one byte each issue one read.
C8_PeekThenAdvance ==
    [][ /\ (op' = "underflow" /\ err' = "none" /\ ret' # eof) =>
              /\ mPutbackAvailable' /\ mPutbackChar' = ret'
              /\ Len(calls') <= 1
        /\ (op' = "underflow" /\ mFileDescriptor # -1 /\ mPutbackAvailable) =>
              /\ err' = "none" /\ ret' = mPutbackChar
              /\ calls' = <<>>
              /\ UNCHANGED putback
        /\ (op' = "uflow" /\ mFileDescriptor # -1 /\ mPutbackAvailable) =>
              /\ err' = "none" /\ ret' = mPutbackChar
              /\ calls' = <<>>
              /\ ~mPutbackAvailable'
        /\ (op' = "idle") => UNCHANGED putback
        /\ (op' \in {"underflow", "uflow"} /\ mFileDescriptor # -1
            /\ ~mPutbackAvailable) => calls' = <<"read">>
        /\ (mFileDescriptor # -1 /\ ~mPutbackAvailable) =>
              \A n \in 1 .. MaxN, rd \in ReadLimits :
                  xsgetn(Start, n, rd).calls = <<"read">>
      ]_vars

\* C8 happens: uflow has returned the pending byte without a read and the
\* slot is empty.
C8_Witness ==
    /\ op = "uflow" /\ err = "none" /\ ret \in Bytes
    /\ calls = <<>>
    /\ ~mPutbackAvailable /\ mPutbackChar = ret

\* C9: xsgetn(s, n) with n >= 1 and a putback byte pending stores that byte
\* in s[0], empties the slot and returns 1 + k, k being what the one read of
\* n - 1 bytes returned (no read and k = 0 when n = 1).
C9_CountsPutback ==
    (mFileDescriptor # -1 /\ mPutbackAvailable) =>
        \A n \in 1 .. MaxN, rd \in ReadLimits \ {-1} :
            LET r == xsgetn(Start, n, rd)
                k == IF n = 1 THEN 0 ELSE ReadCount(Start.k, n - 1, rd)
            IN /\ r.err = "none"
               /\ r.buf[1] = mPutbackChar
               /\ ~r.k.pbAvail
               /\ Len(r.calls) = (IF n = 1 THEN 0 ELSE 1)
               /\ r.ret = 1 + k

\* C10: xsgetn(s, n) with n > 1 and a putback byte pending returns 1 when the
\* read of the remaining n - 1 bytes fails.
C10_FailedReadCountsPutback ==
    (mFileDescriptor # -1 /\ mPutbackAvailable) =>
        \A n \in 2 .. MaxN :
            LET r == xsgetn(Start, n, -1)
            IN r.err = "none" /\ r.ret = 1

\* C11: on an open port, SetBaudRate(b) with a speed b the driver supports
\* followed by GetBaudRate returns b; when the device's input and output
\* speeds differ, GetBaudRate raises runtime_error (invalid baud rate) and
\* returns neither.
C11_BaudRoundTrip ==
    /\ mFileDescriptor # -1 =>
          \A b \in ValidSpeeds :
              LET s == SetBaudRate(Start, 0, b)
                  g == GetBaudRate(s, 0)
              IN s.err = "none" /\ g.err = "none" /\ g.ret = b
    /\ (mFileDescriptor # -1 /\ termios.ispeed # termios.ospeed) =>
          /\ GetBaudRate(Start, 0).err = "runtime_error"
          /\ op = "GetBaudRate" => err = "runtime_error"
    /\ (op = "GetBaudRate" /\ err = "none") =>
          ret = termios.ispeed /\ ret = termios.ospeed

\* C11 happens: after an Open that set the default speed, GetBaudRate returns
\* the other speed SetBaudRate has set since.
C11_Witness ==
    /\ op = "GetBaudRate" /\ err = "none" /\ ret = "B9600"
    /\ openOk

\* The port as Start, with character size n and ISTRIP set or clear.
WithCharSize(n, strip) ==
    [Start EXCEPT !.k.t.csize = n,
                  !.k.t.c_iflag = IF strip THEN @ \cup {"ISTRIP"}
                                  ELSE @ \ {"ISTRIP"}]

\* C12: on an open port between calls, whatever the character size and
\* ISTRIP were, after
\* SetCharacterSize(c) with c one of the four sizes GetCharacterSize returns
\* c, and ISTRIP is clear when c is 8 bits and set when c is less.
C12_CharSizeRoundTrip ==
    (mFileDescriptor # -1 /\ op = "idle") =>
        \A c \in {CHAR_SIZE_5, CHAR_SIZE_6, CHAR_SIZE_7, CHAR_SIZE_8},
           n \in 5 .. 8, strip \in BOOLEAN :
            LET s == SetCharacterSize(WithCharSize(n, strip), 0, c)
                g == GetCharacterSize(s, 0)
            IN /\ s.err = "none" /\ g.err = "none" /\ g.ret = c
               /\ ("ISTRIP" \in s.k.t.c_iflag) <=> (c # CHAR_SIZE_8)

\* C12 happens: after an Open that set 8 bits, GetCharacterSize returns the
\* 7 bits SetCharacterSize has set since, and ISTRIP is set.
C12_Witness ==
    /\ op = "GetCharacterSize" /\ err = "none" /\ ret = CHAR_SIZE_7
    /\ openOk
    /\ "ISTRIP" \in termios.c_iflag

\* One of the three setters of C13, chosen by `which`.
SetOneOf(r, which, pa, sb, fc) ==
    CASE which = "parity" -> SetParity(r, 0, pa)
      [] which = "stop" -> SetNumberOfStopBits(r, 0, sb)
      [] which = "flow" -> SetFlowControl(r, 0, fc)

\* The orders in which the three setters can be called.
SetterOrders ==
    {o \in [1 .. 3 -> {"parity", "stop", "flow"}] :
        \A i, j \in 1 .. 3 : i # j => o[i] # o[j]}

\* C13: on an open port between calls, whatever parity, stop bits and flow
\* control are in force, after SetParity, SetNumberOfStopBits and
\* SetFlowControl with values of their enumerations, called in any order,
\* GetParity, GetNumberOfStopBits and GetFlowControl each return the value
\* last set.
C13_ThreeRoundTrips ==
    (mFileDescriptor # -1 /\ op = "idle") =>
        \A pa \in {"PARITY_NONE", "PARITY_ODD", "PARITY_EVEN"},
           sb \in {"STOP_BITS_1", "STOP_BITS_2"},
           fc \in {"FLOW_CONTROL_NONE", "FLOW_CONTROL_SOFTWARE",
                   "FLOW_CONTROL_HARDWARE"},
           o \in SetterOrders :
            LET s1 == SetOneOf(Start, o[1], pa, sb, fc)
                s2 == SetOneOf(s1, o[2], pa, sb, fc)
                s3 == SetOneOf(s2, o[3], pa, sb, fc)
            IN /\ s3.err = "none"
               /\ GetParity(s3, 0).ret = pa
               /\ GetNumberOfStopBits(s3, 0).ret = sb
               /\ GetFlowControl(s3, 0).ret = fc

\* C13 happens: after an Open that set no parity, 1 stop bit and no flow
\* control, the port has odd parity, 2 stop bits and software flow control,
\* and GetParity has just returned the parity.
C13_Witness ==
    /\ op = "GetParity" /\ err = "none" /\ ret = "PARITY_ODD"
    /\ openOk
    /\ GetNumberOfStopBits(Start, 0).ret = "STOP_BITS_2"
    /\ GetFlowControl(Start, 0).ret = "FLOW_CONTROL_SOFTWARE"

\* Values of a short outside 0 .. 255.
OutOfRange == {-32768, -1, 256, 32767}

\* C14: on an open port between calls, for every v in 0 .. 255 SetVMin(v)
\* followed by GetVMin returns v and SetVTime(v) followed by GetVTime returns
\* v; for v outside 0 .. 255 SetVMin(v) and SetVTime(v) raise
\* invalid_argument without a system call and leave the settings unchanged.
C14_VMinVTime ==
    /\ (mFileDescriptor # -1 /\ op = "idle") =>
          /\ \A v \in 0 .. 255 :
                /\ SetVMin(Start, 0, v).err = "none"
                /\ GetVMin(SetVMin(Start, 0, v), 0).ret = v
                /\ SetVTime(Start, 0, v).err = "none"
                /\ GetVTime(SetVTime(Start, 0, v), 0).ret = v
          /\ \A v \in OutOfRange, f \in 0 .. 2 :
                /\ SetVMin(Start, f, v) =
                       [Start EXCEPT !.err = "invalid_argument"]
                /\ SetVTime(Start, f, v) =
                       [Start EXCEPT !.err = "invalid_argument"]
    /\ (op \in {"SetVMin", "SetVTime"} /\ err = "invalid_argument") =>
          calls = <<>>

\* C14 happens: after an Open that set VMIN 0, GetVMin returns the 255
\* SetVMin has set since.
C14_Witness ==
    /\ op = "GetVMin" /\ err = "none" /\ ret = 255
    /\ openOk

\* What the seven getters answer on the port in state k.
GetterAnswers(k) ==
    LET r == [Start EXCEPT !.k = k]
        Answer(g) == <<g.err, g.ret>>
    IN <<Answer(GetBaudRate(r, 0)), Answer(GetCharacterSize(r, 0)),
         Answer(GetFlowControl(r, 0)), Answer(GetParity(r, 0)),
         Answer(GetNumberOfStopBits(r, 0)), Answer(GetVMin(r, 0)),
         Answer(GetVTime(r, 0))>>

\* The five enum-typed setters, each called with a value outside its
\* enumeration.
InvalidEnumCalls ==
    {SetBaudRate(Start, 0, "BAUD_INVALID"),
     SetCharacterSize(Start, 0, CHAR_SIZE_INVALID),
     SetFlowControl(Start, 0, "FLOW_CONTROL_INVALID"),
     SetParity(Start, 0, "PARITY_INVALID"),
     SetNumberOfStopBits(Start, 0, "STOP_BITS_OTHER")}

\* C15: on an open port between calls, each of the five enum-typed setters
\* called with a value outside its enumeration raises invalid_argument, and
\* every getter answers afterwards what it answered before.
C15_InvalidEnumRejected ==
    (mFileDescriptor # -1 /\ op = "idle") =>
        \A s \in InvalidEnumCalls :
            /\ s.err = "invalid_argument"
            /\ GetterAnswers(s.k) = GetterAnswers(Start.k)

\* C16: Open on a closed instance with a mode that is none of in, out and
\* in | out returns without an exception and without a system call, and
\* changes neither the object nor the device: the instance is closed and
\* every getter raises NotOpen.
C16_OtherModeNoOp ==
    [][ /\ (mFileDescriptor = -1 /\ op = "idle") =>
              \A f \in 0 .. 24 :
                  LET r == Open(Start, f, "app")
                  IN /\ r = Start
                     /\ ~IsOpen(r)
                     /\ GetFileDescriptor(r).err = "NotOpen"
                     /\ \A i \in 1 .. 7 :
                           GetterAnswers(r.k)[i][1] = "NotOpen"
        /\ (op' = "Open" /\ mFileDescriptor = -1 /\ calls' = <<>>) =>
              /\ err' = "none"
              /\ UNCHANGED <<prog, kern>>
      ]_vars

\* C16 happens: Open has returned without an exception and without a system
\* call, and the instance is closed.
C16_Witness ==
    /\ op = "Open" /\ err = "none" /\ calls = <<>>
    /\ mFileDescriptor = -1
    /\ GetBaudRate(Start, 0).err = "NotOpen"

\* C17: on an open port xsputn and overflow never raise and issue at most one
\* write each. xsputn(s, n) returns 0 without a write when n <= 0; otherwise
\* it issues one write and returns its count w when 0 < w <= n, and 0 when
\* the write fails or transfers nothing. overflow(eof) writes nothing and
\* returns eof; overflow(c) issues one write and returns eof when the write
\* fails or transfers nothing, and a value other than eof otherwise.
C17_WritesNeverRaise ==
    /\ (op \in {"xsputn", "overflow"} /\ err # "NotOpen") =>
          /\ err = "none"
          /\ calls \in {<<>>, <<"write">>}
    /\ (op = "xsputn" /\ err = "none") =>
          /\ ret \in 0 .. MaxN
          /\ ret > 0 => calls = <<"write">>
    /\ (mFileDescriptor # -1 /\ op = "idle") =>
          \A wr \in WriteLimits :
              /\ \A n \in -1 .. MaxN :
                    LET r == xsputn(Start, n, wr)
                        w == WriteCount(Start.k, n, wr)
                    IN /\ r.err = "none"
                       /\ n <= 0 => (r.ret = 0 /\ r.calls = <<>>
                                      /\ r.k = Start.k)
                       /\ n > 0 =>
                             /\ r.calls = <<"write">>
                             /\ w <= n
                             /\ r.ret = (IF w > 0 THEN w ELSE 0)
                             /\ r.k.outq = outq + r.ret
              /\ LET r == overflow(Start, eof, wr)
                 IN /\ r.err = "none" /\ r.ret = eof
                    /\ r.calls = <<>> /\ r.k = Start.k
              /\ \A c \in Bytes :
                    LET r == overflow(Start, c, wr)
                        w == WriteCount(Start.k, 1, wr)
                    IN /\ r.err = "none"
                       /\ r.calls = <<"write">>
                       /\ (r.ret = eof) <=> (w <= 0)
                       /\ (r.k.outq = outq) <=> (w <= 0)

\* C17 happens: xsputn has issued its write on an open port with room in the
\* output queue, the write transferred nothing, and 0 was returned without
\* an exception.
C17_Witness ==
    /\ op = "xsputn" /\ err = "none" /\ ret = 0
    /\ calls = <<"write">>
    /\ mFileDescriptor # -1 /\ outq = 0

\* C18: pbackfail(c) with the putback slot empty and c other than eof stores
\* c as the pending byte and returns a value other than eof, so that the next
\* underflow returns c, the next uflow returns c, and the next xsgetn of at
\* least one byte reports at least one byte with c in s[0]; pbackfail(eof)
\* returns eof and leaves the slot empty.
C18_PushbackThenRead ==
    (mFileDescriptor # -1 /\ ~mPutbackAvailable /\ op = "idle") =>
        /\ \A c \in Bytes :
              LET p == pbackfail(Start, c)
              IN /\ p.err = "none" /\ p.ret # eof
                 /\ p.k.pbAvail /\ p.k.pbChar = c
                 /\ \A rd \in ReadLimits :
                       /\ underflow(p, rd).ret = c
                       /\ uflow(p, rd).ret = c
                       /\ \A n \in 1 .. MaxN :
                             LET g == xsgetn(p, n, rd)
                             IN /\ g.err = "none"
                                /\ g.ret >= 1
                                /\ g.buf[1] = c
        /\ LET p == pbackfail(Start, eof)
           IN /\ p.err = "none" /\ p.ret = eof
              /\ ~p.k.pbAvail
              /\ p.k = Start.k

\* C19: showmanyc with a putback byte pending returns 1 without a system call
\* and leaves the slot as it is; with the slot empty, and both fcntl(F_SETFL)
\* calls succeeding, it issues one read of one byte on the port switched to
\* non-blocking mode, and returns 1 with that byte taken from the input queue
\* and stored as the pending byte when the read delivered a byte, and 0 with
\* the slot empty when the read failed or delivered nothing.
C19_ProbeAnswers ==
    [][ /\ (op' = "showmanyc" /\ mFileDescriptor # -1 /\ mPutbackAvailable) =>
              /\ err' = "none" /\ ret' = 1
              /\ calls' = <<>>
              /\ UNCHANGED <<putback, kern>>
        /\ (op' = "showmanyc" /\ mFileDescriptor # -1 /\ ~mPutbackAvailable
            /\ err' = "none" /\ ret' # -1) =>
              /\ calls' = <<"fcntl_getfl", "fcntl_setfl", "read",
                            "fcntl_setfl">>
              /\ ret' \in {0, 1}
              /\ ret' = 1 => /\ inq # <<>>
                             /\ mPutbackAvailable'
                             /\ mPutbackChar' = Head(inq)
                             /\ inq' = Tail(inq)
              /\ ret' = 0 => /\ ~mPutbackAvailable'
                             /\ mPutbackChar' = mPutbackChar
                             /\ inq' = inq
        /\ (mFileDescriptor # -1 /\ ~mPutbackAvailable /\ op = "idle") =>
              \A rd \in ReadLimits :
                  LET r == showmanyc(Start, 0, rd)
                      got == ReadCount(Start.k, 1, rd)
                  IN /\ r.err = "none"
                     /\ r.ret = (IF got = 1 THEN 1 ELSE 0)
                     /\ r.k.pbAvail <=> (got = 1)
      ]_vars

\* C19 happens: with the slot empty and a byte waiting, the probe has read
\* the byte, stored it as the pending byte and returned 1.
C19_Witness ==
    /\ op = "showmanyc" /\ err = "none" /\ ret = 1
    /\ Len(calls) = 4
    /\ mPutbackAvailable /\ mPutbackChar = 66
    /\ inq = <<65>>

\* C20: on an open port IsDataAvailable returns true exactly when
\* ioctl(FIONREAD) succeeds and reports a count greater than 0; when the
\* ioctl fails it returns false and raises nothing. It changes neither the
\* object nor the device.
C20_DataAvailable ==
    [][ /\ (op' = "IsDataAvailable" /\ mFileDescriptor # -1) =>
              /\ err' = "none"
              /\ ret' \in BOOLEAN
              /\ calls' = <<"ioctl_fionread">>
              /\ ret' => Len(inq) > 0
              /\ UNCHANGED <<prog, kern>>
        /\ (mFileDescriptor # -1 /\ op = "idle") =>
              /\ IsDataAvailable(Start, 0).ret = (Len(inq) > 0)
              /\ IsDataAvailable(Start, 0).err = "none"
              /\ IsDataAvailable(Start, 1).ret = FALSE
              /\ IsDataAvailable(Start, 1).err = "none"
      ]_vars

\* C20 happens: bytes were waiting, the query failed, and IsDataAvailable
\* returned false without an exception.
C20_Witness ==
    /\ op = "IsDataAvailable" /\ err = "none" /\ ret = FALSE
    /\ mFileDescriptor # -1
    /\ Len(inq) = MaxQueue

\* The seven per-parameter setters, in the order of GetterAnswers, each called
\* with every value of its parameter's domain.
SetterResults(i) ==
    CASE i = 1 -> {SetBaudRate(Start, 0, b) : b \in ValidSpeeds}
      [] i = 2 -> {SetCharacterSize(Start, 0, c) :
                     c \in {CHAR_SIZE_5, CHAR_SIZE_6, CHAR_SIZE_7, CHAR_SIZE_8}}
      [] i = 3 -> {SetFlowControl(Start, 0, fc) :
                     fc \in {"FLOW_CONTROL_HARDWARE", "FLOW_CONTROL_SOFTWARE",
                             "FLOW_CONTROL_NONE"}}
      [] i = 4 -> {SetParity(Start, 0, pa) :
                     pa \in {"PARITY_EVEN", "PARITY_ODD", "PARITY_NONE"}}
      [] i = 5 -> {SetNumberOfStopBits(Start, 0, sb) :
                     sb \in {"STOP_BITS_1", "STOP_BITS_2"}}
      [] i = 6 -> {SetVMin(Start, 0, v) : v \in {0, 1, 255}}
      [] i = 7 -> {SetVTime(Start, 0, v) : v \in {0, 1, 255}}

\* C21: on an open port between calls, a setter of one of baud rate, character
\* size, flow control, parity, stop bits, VMIN and VTIME, called with a value
\* of its parameter's domain, succeeds and leaves the answer of the getter of
\* each of the six other parameters as it was before the call.
C21_SettersKeepOthers ==
    (mFileDescriptor # -1 /\ op = "idle") =>
        \A i \in 1 .. 7 :
            \A s \in SetterResults(i) :
                /\ s.err = "none"
                /\ \A j \in (1 .. 7) \ {i} :
                      GetterAnswers(s.k)[j] = GetterAnswers(Start.k)[j]

\* C21 happens: SetNumberOfStopBits has succeeded on a port whose speed,
\* character size, parity, flow control and VMIN are not the defaults, and
\* their getters still report them.
C21_Witness ==
    /\ op = "SetNumberOfStopBits" /\ err = "none"
    /\ "CSTOPB" \in termios.c_cflag
    /\ GetterAnswers(Start.k)[1] = <<"none", "B9600">>
    /\ GetterAnswers(Start.k)[2][1] = "none"
    /\ GetterAnswers(Start.k)[2][2] = CHAR_SIZE_7
    /\ GetterAnswers(Start.k)[3] = <<"none", "FLOW_CONTROL_SOFTWARE">>
    /\ GetterAnswers(Start.k)[4] = <<"none", "PARITY_ODD">>
    /\ GetterAnswers(Start.k)[6] = <<"none", 255>>

\* C22: Close on an open port sets mFileDescriptor to -1 only when both the
\* tcsetattr of mOldPortSettings and close() have succeeded. When tcsetattr
\* fails, Close raises runtime_error without calling close(); when close()
\* fails, it raises runtime_error; in both cases mFileDescriptor is unchanged
\* and IsOpen remains true.
C22_CloseInvalidatesLast ==
    [][ (op' = "Close" /\ mFileDescriptor # -1) =>
            /\ err' \in {"none", "runtime_error"}
            /\ err' = "none" =>
                  /\ calls' = <<"tcsetattr", "close">>
                  /\ mFileDescriptor' = -1
            /\ err' = "runtime_error" =>
                  /\ calls' \in {<<"tcsetattr">>, <<"tcsetattr", "close">>}
                  /\ mFileDescriptor' = mFileDescriptor
                  /\ calls' = <<"tcsetattr">> => termios' = termios
            /\ \A f \in 1 .. 2 :
                  LET r == Close(Start, f)
                  IN /\ r.err = "runtime_error"
                     /\ Len(r.calls) = f
                     /\ IsOpen(r)
      ]_vars

\* C22 happens: close() has failed after the settings were restored, Close
\* raised runtime_error and the instance is open.
C22_Witness ==
    /\ op = "Close" /\ err = "runtime_error"
    /\ calls = <<"tcsetattr", "close">>
    /\ mFileDescriptor # -1
    /\ openOk /\ termios = mOldPortSettings

\* C23: when Open on a closed instance raises OpenFailed, whichever of its
\* steps failed, the instance is closed afterwards: mFileDescriptor is -1,
\* IsOpen is false, and a following Open is not rejected with AlreadyOpen.
C23_FailedOpenStaysClosed ==
    (op = "Open" /\ err = "OpenFailed") =>
        /\ mFileDescriptor = -1
        /\ ~IsOpen(Start)
        /\ \A m \in OpenModes : Open(Start, 0, m).err # "AlreadyOpen"

\* The byte pending in the putback slot, as a sequence.
Pending(avail, char) == IF avail THEN <<char>> ELSE <<>>

\* The bytes a call took from the input queue that went from q to q2.
Taken(q, q2) == SubSeq(q, 1, Len(q) - Len(q2))

\* The bytes a call reported to its caller: the byte a successful uflow
\* returned, the first ret bytes xsgetn stored.
Reported(name, e, rv, b) ==
    IF e # "none" THEN <<>>
    ELSE CASE name = "uflow" -> IF rv = eof THEN <<>> ELSE <<rv>>
           [] name = "xsgetn" -> SubSeq(b, 1, rv)
           [] OTHER -> <<>>

\* C24: over every sequence of underflow, uflow, xsgetn and showmanyc calls on
\* an open port, with no pbackfail and no flush, the bytes reported to the
\* caller (the results of the successful uflow calls and the first ret bytes
\* of each xsgetn), followed by the byte pending in the putback slot, are the
\* bytes taken from the device, in device order.  Stated for one call: what
\* the call reports, followed by the byte pending after it, is the byte
\* pending before it followed by what the call took from the input queue.
C24_EachByteOnce ==
    [][ (op' \in {"underflow", "uflow", "xsgetn", "showmanyc"}
         /\ mFileDescriptor # -1) =>
            Reported(op', err', ret', buf')
                \o Pending(mPutbackAvailable', mPutbackChar')
            = Pending(mPutbackAvailable, mPutbackChar) \o Taken(inq, inq')
      ]_vars

\* C25: uflow on an open port leaves the putback slot empty on every call,
\* whether underflow returned the pending byte, a byte it read, or eof.  A
\* call that returns a byte returns the pending byte when there is one, taking
\* nothing from the device, and otherwise the first byte of the input queue,
\* which it removes; two successive calls that return a byte return two
\* successive bytes of the logical input, never one device byte twice.
C25_AdvanceByOne ==
    [][ /\ (op' = "uflow" /\ mFileDescriptor # -1) =>
              /\ err' = "none"
              /\ ~mPutbackAvailable'
              /\ mPutbackAvailable =>
                    /\ ret' = mPutbackChar /\ ret' # eof
                    /\ calls' = <<>>
                    /\ inq' = inq
              /\ ~mPutbackAvailable =>
                    /\ calls' = <<"read">>
                    /\ ret' # eof =>
                          /\ inq # <<>>
                          /\ ret' = Head(inq)
                          /\ inq' = Tail(inq)
                    /\ ret' = eof => inq' = inq
        /\ (mFileDescriptor # -1 /\ op = "idle") =>
              \A rd1, rd2 \in ReadLimits :
                  LET logical == Pending(mPutbackAvailable, mPutbackChar)
                                     \o inq
                      u1 == uflow(Start, rd1)
                      u2 == uflow(u1, rd2)
                  IN (u1.ret # eof /\ u2.ret # eof) =>
                        /\ Len(logical) >= 2
                        /\ u1.ret = logical[1]
                        /\ u2.ret = logical[2]
                        /\ Pending(u2.k.pbAvail, u2.k.pbChar) \o u2.k.inq
                             = SubSeq(logical, 3, Len(logical))
      ]_vars

\* C25 happens: with the slot empty and two bytes waiting, uflow has read the
\* first, returned it and left the slot empty.
C25_Witness ==
    /\ op = "uflow" /\ err = "none" /\ ret = 65
    /\ calls = <<"read">>
    /\ ~mPutbackAvailable
    /\ inq = <<66>>

\* C26: after an underflow that returned a byte a putback byte is pending, so
\* a pbackfail called next returns eof and leaves the slot as it is, whatever
\* its argument; after a uflow the slot is empty, so a pbackfail(c) called
\* next stores c and returns a value other than eof for every c other than
\* eof.
C26_PushbackAfterRead ==
    /\ (op = "underflow" /\ err = "none" /\ ret # eof) =>
          /\ mPutbackAvailable /\ mPutbackChar = ret
          /\ \A c \in PutChars :
                LET p == pbackfail(Start, c)
                IN /\ p.err = "none" /\ p.ret = eof
                   /\ p.k = Start.k
    /\ (op = "uflow" /\ err = "none") =>
          /\ ~mPutbackAvailable
          /\ \A c \in Bytes :
                LET p == pbackfail(Start, c)
                IN /\ p.err = "none" /\ p.ret # eof
                   /\ p.k.pbAvail /\ p.k.pbChar = c

\* C26 happens: underflow has read a byte from the device and returned it, the
\* byte is pending, and a pbackfail of another byte fails.
C26_Witness ==
    /\ op = "underflow" /\ err = "none" /\ ret = 65
    /\ calls = <<"read">>
    /\ mPutbackAvailable /\ mPutbackChar = 65
    /\ pbackfail(Start, 66).ret = eof

\* C27: after a Close followed by an Open that succeeds, no putback byte is
\* pending: whatever underflow, showmanyc or pbackfail left in the slot before
\* the Close, the first underflow, uflow, xsgetn or showmanyc on the port just
\* opened reads from the device.  (The slot is empty after construction and
\* is written on an open port only, so an Open finds a byte in it only after
\* a Close.)
C27_ReopenEmptiesSlot ==
    (op = "Open" /\ err = "none" /\ calls # <<>>) =>
        /\ ~mPutbackAvailable
        /\ \A rd \in ReadLimits :
              /\ underflow(Start, rd).calls = <<"read">>
              /\ uflow(Start, rd).calls = <<"read">>
              /\ \A n \in 1 .. MaxN : xsgetn(Start, n, rd).calls = <<"read">>
              /\ "read" \in {showmanyc(Start, 0, rd).calls[i] :
                                i \in 1 .. Len(showmanyc(Start, 0, rd).calls)}

\* C28: immediately after construction, by the default constructor or by the
\* one that opens and configures the port, the putback slot is empty, so that
\* on the open port the first underflow, uflow, xsgetn or showmanyc reads from
\* the device and the first pbackfail of a byte succeeds.
C28_ConstructedEmpty ==
    (op = "Implementation" /\ err = "none") =>
        /\ ~mPutbackAvailable
        /\ mFileDescriptor # -1 =>
              /\ \A rd \in ReadLimits :
                    /\ underflow(Start, rd).calls = <<"read">>
                    /\ uflow(Start, rd).calls = <<"read">>
                    /\ \A n \in 1 .. MaxN :
                          xsgetn(Start, n, rd).calls = <<"read">>
                    /\ Len(showmanyc(Start, 0, rd).calls) = 4
              /\ \A c \in Bytes :
                    LET p == pbackfail(Start, c)
                    IN p.ret # eof /\ p.k.pbAvail /\ p.k.pbChar = c

\* The open port as it is, with the flow control bits and characters given.
WithFlow(ixon, ixoff, crtscts, vstart, vstop) ==
    [Start EXCEPT
       !.k.t.c_iflag = (@ \ {"IXON", "IXOFF"})
                         \cup (IF ixon THEN {"IXON"} ELSE {})
                         \cup (IF ixoff THEN {"IXOFF"} ELSE {}),
       !.k.t.c_cflag = (@ \ {"CRTSCTS"})
                         \cup (IF crtscts THEN {"CRTSCTS"} ELSE {}),
       !.k.t.vstart = vstart,
       !.k.t.vstop = vstop]

\* Values of c_cc[VSTART] and c_cc[VSTOP]: disabled, XON, XOFF and another.
FlowChars == {POSIX_VDISABLE, CTRL_Q, CTRL_S, 1}

\* What the claim says GetFlowControl returns.
FlowClass(ixon, ixoff, crtscts, vstart, vstop) ==
    IF ixon /\ ixoff /\ vstart = 17 /\ vstop = 19
    THEN "FLOW_CONTROL_SOFTWARE"
    ELSE IF ~ixon /\ ~ixoff
         THEN IF crtscts THEN "FLOW_CONTROL_HARDWARE" ELSE "FLOW_CONTROL_NONE"
         ELSE "FLOW_CONTROL_INVALID"

\* C29: on an open port GetFlowControl classifies every combination of IXON,
\* IXOFF, CRTSCTS and the start and stop characters: SOFTWARE exactly when
\* IXON and IXOFF are set and the characters are 0x11 and 0x13, whatever
\* CRTSCTS is; HARDWARE exactly when neither IXON nor IXOFF is set and CRTSCTS
\* is; NONE exactly when none of the three bits is set; INVALID for every
\* other combination (one of IXON and IXOFF set, or both with other
\* characters), whatever CRTSCTS is.
C29_FlowClassified ==
    /\ (mFileDescriptor # -1 /\ op = "idle") =>
          \A ixon, ixoff, crtscts \in BOOLEAN, vstart, vstop \in FlowChars :
              LET g == GetFlowControl(
                           WithFlow(ixon, ixoff, crtscts, vstart, vstop), 0)
              IN /\ g.err = "none"
                 /\ g.ret = FlowClass(ixon, ixoff, crtscts, vstart, vstop)
                 /\ g.ret = "FLOW_CONTROL_SOFTWARE" <=>
                       (ixon /\ ixoff /\ vstart = CTRL_Q /\ vstop = CTRL_S)
                 /\ g.ret = "FLOW_CONTROL_HARDWARE" <=>
                       (~ixon /\ ~ixoff /\ crtscts)
                 /\ g.ret = "FLOW_CONTROL_NONE" <=>
                       (~ixon /\ ~ixoff /\ ~crtscts)
                 /\ g.ret = "FLOW_CONTROL_INVALID" <=>
                       \/ ixon # ixoff
                       \/ ixon /\ ixoff
                          /\ ~(vstart = CTRL_Q /\ vstop = CTRL_S)
    /\ (op = "GetFlowControl" /\ err = "none") =>
          ret = FlowClass("IXON" \in termios.c_iflag,
                          "IXOFF" \in termios.c_iflag,
                          "CRTSCTS" \in termios.c_cflag,
                          termios.vstart, termios.vstop)

\* C29 happens: on a port that an Open left with the settings the device was
\* found in, IXON without IXOFF, GetFlowControl has returned INVALID.
C29_Witness ==
    /\ op = "GetFlowControl" /\ err = "none"
    /\ ret = "FLOW_CONTROL_INVALID"
    /\ "IXON" \in termios.c_iflag /\ "IXOFF" \notin termios.c_iflag

\* The configuration and flush member functions a caller invokes on the port.
ConfigFlushOps ==
    {"SetBaudRate", "SetCharacterSize", "SetFlowControl", "SetParity",
     "SetNumberOfStopBits", "SetVMin", "SetVTime",
     "GetBaudRate", "GetCharacterSize", "GetFlowControl", "GetParity",
     "GetNumberOfStopBits", "GetVMin", "GetVTime",
     "SetParametersToDefault",
     "FlushInputBuffer", "FlushOutputBuffer", "FlushIOBuffers"}

\* C30: a setter, a getter, SetParametersToDefault or a flush called on an
\* open port in which a system call fails, the tcflush inside SetFlowControl
\* included, raises runtime_error and never OpenFailed; OpenFailed is raised
\* by Open only.
C30_OpenFailedOnlyByOpen ==
    /\ (op \in ConfigFlushOps
        /\ err \notin {"none", "NotOpen", "invalid_argument"}) =>
          err = "runtime_error"
    /\ err = "OpenFailed" => op = "Open"

\* C31: SetFlowControl flushes both queues before it reads the settings and
\* before it tests its argument: called on an open port with a value outside
\* the enumeration, no system call failing, it raises invalid_argument after
\* tcflush and tcgetattr, with the device settings unchanged and the input
\* and output queues empty.
C31_FlushBeforeValidate ==
    /\ (mFileDescriptor # -1 /\ op = "idle") =>
          LET s == SetFlowControl(Start, 0, "FLOW_CONTROL_INVALID")
          IN /\ s.err = "invalid_argument"
             /\ s.calls = <<"tcflush_io", "tcgetattr">>
             /\ s.k.t = termios
             /\ s.k.inq = <<>> /\ s.k.outq = 0
             /\ s.k = [Start.k EXCEPT !.inq = <<>>, !.outq = 0]
    /\ (op = "SetFlowControl" /\ err = "invalid_argument") =>
          /\ calls = <<"tcflush_io", "tcgetattr">>
          /\ inq = <<>> /\ outq = 0

\* C31 happens: SetFlowControl has rejected its argument after the flush and
\* the read of the settings, on a port opened without an error.
C31_Witness ==
    /\ op = "SetFlowControl" /\ err = "invalid_argument"
    /\ calls = <<"tcflush_io", "tcgetattr">>
    /\ mFileDescriptor # -1 /\ openOk
    /\ inq = <<>> /\ outq = 0
    /\ termios # mOldPortSettings

\* The four parity flags of settings t: PARENB, PARODD, INPCK, IGNPAR.
ParityFlags(t) ==
    <<"PARENB" \in t.c_cflag, "PARODD" \in t.c_cflag,
      "INPCK" \in t.c_iflag, "IGNPAR" \in t.c_iflag>>

\* C32: the parity flags SetParity(p) leaves depend on p only.  On an open
\* port with the default baseline, SetParity(EVEN) or SetParity(ODD) followed
\* by SetParity(NONE) leaves the flags that SetParity(NONE) alone leaves, and
\* SetParity(NONE) followed by SetParity(EVEN) leaves IGNPAR clear.
C32_ParityFlagsOfValueOnly ==
    (mFileDescriptor # -1 /\ op = "idle") =>
        LET base == [Start EXCEPT !.k.t = DefaultBaseline(@)]
            none == SetParity(base, 0, "PARITY_NONE")
        IN /\ \A p \in {"PARITY_EVEN", "PARITY_ODD"} :
                 LET s == SetParity(SetParity(base, 0, p), 0, "PARITY_NONE")
                 IN /\ s.err = "none"
                    /\ ParityFlags(s.k.t) = ParityFlags(none.k.t)
           /\ "IGNPAR" \notin SetParity(none, 0, "PARITY_EVEN").k.t.c_iflag

\* C33: on an open port between calls, whenever showmanyc would return 1 (a
\* putback byte is pending, or a byte is waiting on the device),
\* IsDataAvailable returns true; so also after underflow or showmanyc has
\* moved the only waiting byte into the putback slot.
C33_QueriesAgree ==
    (mFileDescriptor # -1 /\ op = "idle") =>
        (showmanyc(Start, 0, 1).ret = 1 =>
            /\ IsDataAvailable(Start, 0).err = "none"
            /\ IsDataAvailable(Start, 0).ret = TRUE)

\* The member functions that configure, flush, query or write.
SlotFrameOps ==
    ConfigFlushOps \cup {"IsDataAvailable", "xsputn", "overflow"}

\* C34: no getter, no setter, no flush (the one inside SetFlowControl
\* included), nor IsDataAvailable, xsputn or overflow changes the putback
\* slot: mPutbackAvailable and mPutbackChar are after the call what they were
\* before it, so that an underflow after FlushInputBuffer returns a byte that
\* was pending before the flush.
C34_SlotUntouched ==
    [][ /\ op' \in SlotFrameOps => UNCHANGED putback
        /\ (mFileDescriptor # -1 /\ mPutbackAvailable /\ op = "idle") =>
              \A rd \in ReadLimits :
                  LET u == underflow(FlushInputBuffer(Start, 0), rd)
                  IN /\ u.err = "none"
                     /\ u.ret = mPutbackChar
                     /\ u.k.inq = <<>>
      ]_vars

\* C34 happens: FlushInputBuffer has succeeded on a port with a byte pending,
\* and the byte is still pending.
C34_Witness ==
    /\ op = "FlushInputBuffer" /\ err = "none"
    /\ calls = <<"tcflush_in">>
    /\ inq = <<>>
    /\ mPutbackAvailable /\ mPutbackChar = 66

\* The system calls of the constructor with a file name when none fails:
\* those of Open, then of SetBaudRate, SetCharacterSize, SetFlowControl,
\* SetParity and SetNumberOfStopBits.
CtorCalls ==
    <<"open", "tcgetattr", "tcsetattr", "tcflush_io",
      "tcgetattr", "tcsetattr", "tcgetattr", "tcsetattr",
      "tcgetattr", "tcsetattr", "tcflush_io", "tcgetattr", "tcsetattr",
      "tcgetattr", "tcsetattr", "tcgetattr", "tcsetattr",
      "tcgetattr", "tcsetattr", "tcgetattr", "tcsetattr",
      "tcflush_io", "fcntl_getfl", "fcntl_setfl">>
    \o <<"tcgetattr", "tcsetattr">>
    \o <<"tcgetattr", "tcsetattr">>
    \o <<"tcflush_io", "tcgetattr", "tcsetattr">>
    \o <<"tcgetattr", "tcsetattr">>
    \o <<"tcgetattr", "tcsetattr">>

\* C35: the constructor with a file name calls Open for reading and writing,
\* SetBaudRate, SetCharacterSize, SetFlowControl, SetParity and
\* SetNumberOfStopBits in that order, and leaves at the first of them that
\* raises, with that call's exception: the system calls issued are an
\* initial part of CtorCalls (with the close() after a failed open()), the
\* settings of the calls before the one that raised are applied (here 9600
\* baud, 7 bits, software flow control, odd parity, 2 stop bits), and those
\* of the calls after it are not.
C35_CtorOrder ==
    (op = "Implementation" /\ calls # <<>>) =>
        LET n == Len(calls) IN
        /\ \/ calls = <<"open", "close">>
           \/ n <= Len(CtorCalls) /\ calls = SubSeq(CtorCalls, 1, n)
        /\ err = "none" => calls = CtorCalls
        /\ (err # "none" /\ n <= 24) => err \in {"OpenFailed", "runtime_error"}
        /\ (err # "none" /\ n \in {25, 26, 27, 28, 31, 33, 35}) =>
              err = "runtime_error"
        /\ (err # "none" /\ n = 29) => err = "OpenFailed"
        /\ (err # "none" /\ n \in {30, 32, 34}) =>
              err \in {"runtime_error", "invalid_argument"}
        /\ n >= 24 =>
              /\ termios.ispeed = (IF n >= 27 THEN "B9600" ELSE "B115200")
              /\ termios.ospeed = termios.ispeed
              /\ termios.csize = (IF n >= 29 THEN 7 ELSE 8)
              /\ ("IXON" \in termios.c_iflag) <=> (n >= 32)
              /\ ("PARENB" \in termios.c_cflag) <=> (n >= 34)
              /\ ("CSTOPB" \in termios.c_cflag) <=> (err = "none")

\* C35 happens: the constructor has left at SetFlowControl, which rejected its
\* argument; the speed and the character size are set, the parity is not.
C35_Witness ==
    /\ op = "Implementation" /\ err = "invalid_argument"
    /\ Len(calls) = 30
    /\ termios.ispeed = "B9600" /\ termios.csize = 7
    /\ "PARENB" \notin termios.c_cflag

\* C36: GetPortBlockingStatus on an open port returns true exactly when
\* O_NONBLOCK is clear in the descriptor's flags, and false exactly when it
\* is set.
C36_BlockingStatusReported ==
    mFileDescriptor # -1 =>
        /\ GetPortBlockingStatus(Start).err = "none"
        /\ GetPortBlockingStatus(Start).ret = ~nonblock

====
